---------------------------- MODULE Spec2Model ----------------------------
(***************************************************************************)
(* Model of the Agentic-RAG-Chatbot core:                                  *)
(*   mcp.py             the in-memory message bus (message_queues)         *)
(*   retrieval_agent.py the FAISS vector store with its two files on disk  *)
(*   ingestion_agent.py chunk_text and process_document                    *)
(*   app.py             coordinate_upload and coordinate_query             *)
(* Sequences are 1-based here; the code's 0-based positions are kept in    *)
(* the values the code itself handles (search indices, slice offsets).     *)
(***************************************************************************)
EXTENDS Integers, Sequences, FiniteSets, TLC

VARIABLES
    message_queues,    \* mcp.py: receiver name -> list of envelopes (defaultdict)
    clock,             \* mcp.py: datetime.now(), one tick per stamped envelope
    sent_log,          \* history: envelopes successfully sent, per receiver, in order
    recv_log,          \* history: envelopes returned by receive_mcp_message, per receiver
    discarded,         \* history: envelopes thrown away by clear_mcp_queue
    vector_index,      \* retrieval_agent.py: the vectors held by the FAISS index
    stored_chunks,     \* retrieval_agent.py: chunk texts, parallel to the vectors
    document_mapping,  \* retrieval_agent.py: document names, parallel to the vectors
    file_index,        \* disk: faiss_index.bin
    file_meta,         \* disk: embeddings.pkl
    proc,              \* "up", or "down" after the process died
    ret,               \* the last completed call: its name, arguments and result
    threads            \* the calls in progress when calls run concurrently:
                       \* thread -> where it stands and its local values

vars == << message_queues, clock, sent_log, recv_log, discarded, vector_index,
           stored_chunks, document_mapping, file_index, file_meta, proc, ret,
           threads >>

busVars   == << message_queues, clock, sent_log, recv_log, discarded >>
storeVars == << vector_index, stored_chunks, document_mapping >>
diskVars  == << file_index, file_meta >>

-----------------------------------------------------------------------------
(* Bounds of the model *)

MaxSends  == 3     \* envelopes stamped in one run of the bus
MaxClock  == 2     \* envelopes stamped in one run of the store
MaxStored == 2     \* entries in the vector store, and chunks in one call
MaxTextLen == 8    \* characters in a text handed to chunk_text
MaxBoundarySize == 10   \* largest chunk_size tried at the 70% threshold
MaxFileLen == 3    \* characters in the text of an uploaded file
MaxPadding == 1    \* blanks after the last chunk in the text of a file

-----------------------------------------------------------------------------
(* Python helpers *)

\* An optional value: None is the empty sequence, a value x is << x >>.
None == << >>

Some(x) == << x >>

Min(a, b) == IF a < b THEN a ELSE b

Max(a, b) == IF a > b THEN a ELSE b

Range(s) == { s[i] : i \in 1..Len(s) }

\* seq[idx] for a 0-based Python index: a negative index counts from the end,
\* an index outside the list raises IndexError.
PyInRange(s, idx) == idx < Len(s) /\ idx >= 0 - Len(s)

PyItem(s, idx) == IF idx >= 0 THEN s[idx + 1] ELSE s[Len(s) + idx + 1]

\* s[a:b] of Python for a string or list s: a negative bound counts from the
\* end, bounds outside the string are clipped, a >= b gives the empty string.
PyBound(n, i) == IF i < 0 THEN Max(i + n, 0) ELSE Min(i, n)

PySlice(s, a, b) ==
    LET lo == PyBound(Len(s), a)
        hi == PyBound(Len(s), b)
    IN  IF lo >= hi THEN << >> ELSE SubSeq(s, lo + 1, hi)

\* s.rfind(ch): the 0-based position of the last ch in s, or -1.
RFind(s, ch) ==
    LET at == { i \in 1..Len(s) : s[i] = ch }
    IN  IF at = {} THEN 0 - 1 ELSE (CHOOSE i \in at : \A j \in at : j <= i) - 1

\* s.strip(): s without its leading and trailing whitespace.
Whitespace == {" ", "\n", "\t"}

Strip(s) ==
    LET ink == { i \in 1..Len(s) : s[i] \notin Whitespace }
    IN  IF ink = {} THEN << >>
        ELSE SubSeq(s, CHOOSE i \in ink : \A j \in ink : i <= j,
                       CHOOSE i \in ink : \A j \in ink : j <= i)

-----------------------------------------------------------------------------
(* mcp.py *)

Receivers == {"RetrievalAgent", "LLMResponseAgent", "R"}

Senders == {"IngestionAgent", "RetrievalAgent"}

required_fields == {"sender", "receiver", "payload"}

\* A message handed to send_mcp_message: is_dict tells a dictionary from any
\* other value, keys are the keys it holds.
Message(is_dict, keys, sender, receiver, payload) ==
    [is_dict |-> is_dict, keys |-> keys, sender |-> sender,
     receiver |-> receiver, payload |-> payload]

\* The envelope put in the queue: the message plus timestamp and message_id.
Envelope(m, now) ==
    [sender |-> m.sender, receiver |-> m.receiver, payload |-> m.payload,
     timestamp |-> now, message_id |-> << m.sender, m.receiver, now >>]

\* Mutant: only the test isinstance(message, dict) is made.
WellFormedDictOnly(m) == m.is_dict

\* The validation of send_mcp_message.
WellFormed(m) == m.is_dict /\ required_fields \subseteq m.keys

\* message_queues[receiver] of a defaultdict(list): a missing key is created
\* with an empty list.
QueueGet(queues, r) == IF r \in DOMAIN queues THEN queues[r] ELSE << >>

\* Mutant: the dictionary is replaced by one that holds the queue of r alone.
QueueSetAlone(queues, r, q) == [x \in {r} |-> q]

QueueSet(queues, r, q) ==
    [x \in DOMAIN queues \cup {r} |-> IF x = r THEN q ELSE queues[x]]

\* message_queues[receiver].append(message)
Enqueue(queues, env) ==
    QueueSet(queues, env.receiver, Append(QueueGet(queues, env.receiver), env))

\* send_mcp_message: the queues after the call and its result.
send_mcp_message(queues, m, now) ==
    IF WellFormed(m)
    THEN [queues |-> Enqueue(queues, Envelope(m, now)), ok |-> TRUE]
    ELSE [queues |-> queues, ok |-> FALSE]

\* The test of receive_mcp_message: the key exists and its list is not empty.
HasMessage(queues, r) == r \in DOMAIN queues /\ queues[r] # << >>

\* Mutant: the head is read and left in the list, message_queues[name][0].
PopPeek(q) == [item |-> Head(q), rest |-> q]

\* Mutant: pop() in place of pop(0), the newest envelope is taken.
PopLast(q) == [item |-> q[Len(q)], rest |-> SubSeq(q, 1, Len(q) - 1)]

\* message_queues[receiver_name].pop(0) on a list that is not empty: the
\* item returned and what is left in the list.
Pop(q) == [item |-> Head(q), rest |-> Tail(q)]

\* receive_mcp_message: the queues after the call and the envelope or None.
receive_mcp_message(queues, r) ==
    IF HasMessage(queues, r)
    THEN [queues |-> QueueSet(queues, r, Pop(queues[r]).rest),
          msg |-> Some(Pop(queues[r]).item)]
    ELSE [queues |-> queues, msg |-> None]

\* Mutant: len(message_queues[receiver_name]), which makes the defaultdict
\* create the list of a missing key.
peek_mcp_message_getitem(queues, r) ==
    [queues |-> QueueSet(queues, r, QueueGet(queues, r)),
     count |-> Len(QueueGet(queues, r))]

\* peek_mcp_message: len(message_queues.get(receiver_name, [])); get creates
\* no key. The queues after the call and the number returned.
peek_mcp_message(queues, r) ==
    [queues |-> queues, count |-> IF r \in DOMAIN queues THEN Len(queues[r]) ELSE 0]

\* Mutant: only the oldest envelope is removed, del message_queues[name][:1].
clear_mcp_queue_oldest(queues, r) ==
    IF r \in DOMAIN queues
    THEN QueueSet(queues, r, SubSeq(queues[r], 2, Len(queues[r])))
    ELSE queues

\* Mutant: message_queues[receiver_name].clear() without the membership test,
\* which makes the defaultdict create the list of a missing key.
clear_mcp_queue_getitem(queues, r) == QueueSet(queues, r, << >>)

\* clear_mcp_queue: the queues after the call.
clear_mcp_queue(queues, r) ==
    IF r \in DOMAIN queues THEN QueueSet(queues, r, << >>) ELSE queues

\* get_mcp_stats
get_mcp_stats(queues) ==
    [total_queues |-> Cardinality(DOMAIN queues),
     queues |-> [a \in DOMAIN queues |->
        [message_count |-> Len(queues[a]),
         latest_sender |-> IF queues[a] # << >>
                           THEN Some(queues[a][Len(queues[a])].sender) ELSE None]]]

\* History: the envelope a successful send adds to the log of its receiver.
LogSend(log, m, now) ==
    IF WellFormed(m)
    THEN [log EXCEPT ![m.receiver] = Append(@, Envelope(m, now))]
    ELSE log

LogRecv(log, r, msg) ==
    IF msg = None THEN log ELSE [log EXCEPT ![r] = Append(@, msg[1])]

EmptyLog == [r \in Receivers |-> << >>]

-----------------------------------------------------------------------------
(* retrieval_agent.py: the vector store *)

ChunkTexts == {"c1", "c2"}

Docs == {"a.txt", "b.txt"}

Queries == {"q1", "q2"}

\* embedding_model.encode for one text: the same text always gives the same
\* vector. "c1" and "q1" embed to the same point.
Embed(t) ==
    CASE t = "c1" -> << 0, 0 >>
      [] t = "c2" -> << 2, 0 >>
      [] t = "q1" -> << 0, 0 >>
      [] t = "q2" -> << 1, 0 >>
      [] OTHER    -> << 0, 3 >>

\* Mutant: a failure of the model is swallowed and zero vectors are returned.
create_embeddings_zeros(texts, model_raises) ==
    Some([i \in 1..Len(texts) |-> IF model_raises THEN << 0, 0 >> ELSE Embed(texts[i])])

\* create_embeddings: one vector per text in input order, or None when the
\* model raises.
create_embeddings(texts, model_raises) ==
    IF model_raises THEN None ELSE Some([i \in 1..Len(texts) |-> Embed(texts[i])])

\* The dimension of the index and of the embeddings (384 in the code, 2 here:
\* the vectors of Embed have two components).
dimension == 2

\* Squared Euclidean distance of IndexFlatL2.
L2(u, v) == (u[1] - v[1]) * (u[1] - v[1]) + (u[2] - v[2]) * (u[2] - v[2])

\* vector_index.add(embeddings)
IndexAdd(index, embeddings) == index \o embeddings

\* Mutant: the chunks are put in front of the list instead of at its tail.
ChunksPrepend(chunks_list, chunks) == chunks \o chunks_list

\* The loop over chunks: stored_chunks.append(chunk)
ChunksAppend(chunks_list, chunks) == chunks_list \o chunks

\* Mutant: the document name is appended once per call, outside the loop.
DocsAppendOnce(docs_list, chunks, document_name) == Append(docs_list, document_name)

\* The loop over chunks: document_mapping.append(document_name)
DocsAppend(docs_list, chunks, document_name) ==
    docs_list \o [i \in 1..Len(chunks) |-> document_name]

\* The in-memory store as one value.
Store(index, chunks_list, docs_list) ==
    [vector_index |-> index, stored_chunks |-> chunks_list,
     document_mapping |-> docs_list]

EmptyStore == Store(<< >>, << >>, << >>)

\* The index file: absent, cut short by a failed or interrupted write
\* ("torn"), or holding the vectors of a whole write.
\* What faiss.write_index puts in the file for an IndexFlatL2: the dimension,
\* ntotal, and the components of all vectors one after the other.
IndexFile(vectors) ==
    [state |-> "whole", d |-> dimension, ntotal |-> Len(vectors),
     codes |-> [k \in 1..(Len(vectors) * dimension) |->
                   vectors[((k - 1) \div dimension) + 1][((k - 1) % dimension) + 1]]]

NoIndexFile == [state |-> "absent", d |-> dimension, ntotal |-> 0, codes |-> << >>]

TornIndexFile == [state |-> "torn", d |-> dimension, ntotal |-> 0, codes |-> << >>]

\* faiss.read_index: the vectors of a whole index file, ntotal of them with d
\* components each.
ReadIndex(file) ==
    [i \in 1..file.ntotal |-> SubSeq(file.codes, (i - 1) * file.d + 1, i * file.d)]

\* The metadata file, likewise: the pickled {'chunks': ..., 'documents': ...}.
MetaFile(chunks_list, docs_list) ==
    [state |-> "whole", chunks |-> chunks_list, documents |-> docs_list]

NoMetaFile == [state |-> "absent", chunks |-> << >>, documents |-> << >>]

TornMetaFile == [state |-> "torn", chunks |-> << >>, documents |-> << >>]

Disk(index_file, meta_file) == [file_index |-> index_file, file_meta |-> meta_file]

EmptyDisk == Disk(NoIndexFile, NoMetaFile)

\* Where save_vector_store can stop: nowhere ("none"), inside
\* faiss.write_index, at open(EMBEDDINGS_FILE, 'wb'), inside pickle.dump.
SavePoints == {"none", "write_index", "open", "dump"}

\* Mutant: an index file that is on disk already is not written again.
save_index_once(st, disk, p) ==
    LET written == IF disk.file_index.state = "whole" THEN disk.file_index
                   ELSE IndexFile(st.vector_index)
    IN  CASE p = "write_index" -> Disk(TornIndexFile, disk.file_meta)
          [] p = "open"        -> Disk(written, disk.file_meta)
          [] p = "dump"        -> Disk(written, TornMetaFile)
          [] OTHER             -> Disk(written,
                                       MetaFile(st.stored_chunks, st.document_mapping))

\* save_vector_store stopped at point p (an exception it catches, or the
\* death of the process): the two files it leaves. The index file is written
\* in place first, the metadata file in place second.
save_vector_store(st, disk, p) ==
    CASE p = "write_index" -> Disk(TornIndexFile, disk.file_meta)
      [] p = "open"        -> Disk(IndexFile(st.vector_index), disk.file_meta)
      [] p = "dump"        -> Disk(IndexFile(st.vector_index), TornMetaFile)
      [] OTHER             -> Disk(IndexFile(st.vector_index),
                                   MetaFile(st.stored_chunks, st.document_mapping))

\* The test of initialize_vector_store before loading, and whether
\* faiss.read_index and pickle.load get through both files.
FilesExist(disk) ==
    disk.file_index.state # "absent" /\ disk.file_meta.state # "absent"

Loadable(disk) ==
    FilesExist(disk) /\ disk.file_index.state = "whole" /\ disk.file_meta.state = "whole"

\* initialize_vector_store: the store after the call.
initialize_vector_store(disk) ==
    IF Loadable(disk)
    THEN Store(ReadIndex(disk.file_index), disk.file_meta.chunks,
               disk.file_meta.documents)
    ELSE EmptyStore

\* What can go wrong in one store_embeddings call: nothing, the embedding
\* model raises ("embed"), vector_index.add raises ("add"), or
\* save_vector_store stops at one of its points.
StoreFaults == {"none", "embed", "add", "write_index", "open", "dump"}

SavePointOf(fault) == IF fault \in SavePoints THEN fault ELSE "none"

\* store_embeddings, given what create_embeddings returned for the chunks:
\* the store, the files and the result.
StoreEmbedded(st, disk, chunks, document_name, fault, embeddings) ==
    LET add_raises == fault = "add"
        p == SavePointOf(fault)
        grown == Store(IndexAdd(st.vector_index, embeddings[1]),
                       ChunksAppend(st.stored_chunks, chunks),
                       DocsAppend(st.document_mapping, chunks, document_name))
    IN  IF chunks = << >> \/ embeddings = None \/ add_raises
        THEN [store |-> st, disk |-> disk, ok |-> FALSE]
        ELSE [store |-> grown, disk |-> save_vector_store(grown, disk, p), ok |-> TRUE]

\* store_embeddings: the store, the files and the result.
store_embeddings(st, disk, chunks, document_name, fault) ==
    StoreEmbedded(st, disk, chunks, document_name, fault,
                  create_embeddings(chunks, fault = "embed"))

\* set(document_mapping) takes the names in the order of the list: the
\* distinct names, each at its first place.
RECURSIVE FirstSeen(_)
FirstSeen(names) ==
    IF names = << >> THEN << >>
    ELSE LET before == FirstSeen(SubSeq(names, 1, Len(names) - 1))
             name == names[Len(names)]
         IN  IF name \in Range(before) THEN before ELSE Append(before, name)

\* What the string hashes of one process can make of the iteration of a set
\* of document names: for every sequence of distinct names put into the set,
\* the order in which the set gives them back. Names whose hashes fall in
\* different slots come back by slot, in whatever order they went in; of
\* names whose hashes fall in one slot the later takes another, and then the
\* order they went in counts. Python draws the hashes anew for every process
\* (PYTHONHASHSEED) and keeps them within one.
HashOrders ==
    LET Distinct(s) == \A i, j \in 1..Len(s) : i # j => s[i] # s[j]
        Inserted == UNION { { s \in [1..n -> Docs] : Distinct(s) } :
                              n \in 0..Cardinality(Docs) }
    IN  { o \in [Inserted -> Inserted] :
            \A s \in Inserted : Range(o[s]) = Range(s) }

\* list(set(names)) in a process whose hashes give hash_order.
ListOfSet(names, hash_order) == hash_order[FirstSeen(names)]

\* get_vector_store_stats in a process whose hashes give hash_order.
get_vector_store_stats(st, hash_order) ==
    LET unique_docs == Range(st.document_mapping)
    IN  [total_chunks |-> Len(st.stored_chunks),
         total_documents |-> Cardinality(unique_docs),
         documents |-> ListOfSet(st.document_mapping, hash_order),
         index_size |-> Len(st.vector_index)]

\* clear_vector_store: the store and the files after the call.
clear_vector_store(st, disk) == [store |-> EmptyStore, disk |-> EmptyDisk]

\* vector_index.search(query_embedding, k) on an IndexFlatL2: the index
\* list FAISS returns, as a set of one. The first min(k, ntotal) entries are
\* the 0-based positions of the nearest vectors by non-decreasing distance,
\* the rest is padded with -1. The library scans the vectors by position and
\* keeps a heap of the k best, which a vector enters only when it is strictly
\* nearer than the farthest kept, and returns the heap ordered by distance,
\* then position: of vectors at equal distance the lower position is kept
\* and comes first.
FaissSearch(index, q, k) ==
    LET n == Len(index)
        m == Min(k, n)
        d(i) == L2(index[i + 1], q)
        Before(x, y) == d(x) < d(y) \/ (d(x) = d(y) /\ x < y)
    IN  { [j \in 1..k |-> IF j <= m THEN s[j] ELSE 0 - 1] :
            s \in { t \in [1..m -> 0..(n - 1)] :
                      /\ \A a, b \in 1..m : a < b => Before(t[a], t[b])
                      /\ \A x \in 0..(n - 1) :
                            (\A a \in 1..m : t[a] # x) =>
                                \A a \in 1..m : Before(t[a], x) } }

\* The default top_k of retrieve_chunks.
DefaultTopK == 5

TopKs == {0, 1, DefaultTopK}

\* What vector_index.search(query_embedding, k) can do: return one of the
\* index lists of FaissSearch, or, for k = 0, fail the "assert k > 0" of the
\* Python wrapper. The assertion is there or not with the faiss release and
\* is skipped under python -O: for k = 0 both outcomes are possible.
SearchOutcomes(index, q, k) ==
    { [raised |-> FALSE, indices |-> i] : i \in FaissSearch(index, q, k) } \cup
    (IF k <= 0 THEN { [raised |-> TRUE, indices |-> << >>] } ELSE {})

\* Mutant: the document name is read at the rank of the result, not at idx.
RetrieveResultsDocByRank(st, indices) ==
    LET Valid(idx) == idx < Len(st.stored_chunks)
        kept == SelectSeq(indices, Valid)
    IN  [j \in 1..Len(kept) |-> << PyItem(st.stored_chunks, kept[j]),
                                   PyItem(st.document_mapping, j - 1) >>]

\* Mutant: the validity check is off by one, idx < len(stored_chunks) - 1.
RetrieveResultsOffByOne(st, indices) ==
    LET Valid(idx) == idx < Len(st.stored_chunks) - 1
        kept == SelectSeq(indices, Valid)
    IN  [j \in 1..Len(kept) |-> << PyItem(st.stored_chunks, kept[j]),
                                   PyItem(st.document_mapping, kept[j]) >>]

\* Mutant: the loop runs over the positions from the last to the first,
\* "for idx in reversed(indices[0])".
RetrieveResultsReversed(st, indices) ==
    LET Valid(idx) == idx < Len(st.stored_chunks)
        kept == SelectSeq(indices, Valid)
        N == Len(kept)
    IN  [j \in 1..N |-> << PyItem(st.stored_chunks, kept[N + 1 - j]),
                           PyItem(st.document_mapping, kept[N + 1 - j]) >>]

\* The loop that builds results: the positions that pass the validity check
\* idx < len(stored_chunks), each paired (chunk, doc_name).
RetrieveResults(st, indices) ==
    LET Valid(idx) == idx < Len(st.stored_chunks)
        kept == SelectSeq(indices, Valid)
    IN  [j \in 1..Len(kept) |-> << PyItem(st.stored_chunks, kept[j]),
                                   PyItem(st.document_mapping, kept[j]) >>]

\* Whether the body of retrieve_chunks raises IndexError: stored_chunks[idx]
\* and document_mapping[idx] in the results loop, document_mapping[idx] for
\* every idx in the logging loop.
RetrieveRaises(st, indices) ==
    \E j \in 1..Len(indices) :
        \/ ~PyInRange(st.document_mapping, indices[j])
        \/ indices[j] < Len(st.stored_chunks) /\ ~PyInRange(st.stored_chunks, indices[j])

\* The message retrieve_chunks sends to the LLM response agent.
RetrievalMessage(st, query, results) ==
    Message(TRUE, required_fields, "RetrievalAgent", "LLMResponseAgent",
            [query |-> query, top_chunks |-> results,
             metadata |-> [num_results |-> Len(results),
                           total_docs |-> Cardinality(Range(st.document_mapping))]])

\* Mutant: the test "len(stored_chunks) == 0" is left out.
retrieve_chunks_unchecked(st, queues, now, query, model_raises, indices) ==
    LET results == RetrieveResults(st, indices)
    IN  IF \/ create_embeddings(<< query >>, model_raises) = None
           \/ RetrieveRaises(st, indices)
        THEN [results |-> << >>, queues |-> queues, sent |-> FALSE]
        ELSE [results |-> results,
              queues |-> send_mcp_message(queues,
                            RetrievalMessage(st, query, results), now).queues,
              sent |-> TRUE]

\* retrieve_chunks: the results, the queues after the call and whether an
\* envelope was sent. indices is what vector_index.search returned.
retrieve_chunks(st, queues, now, query, model_raises, indices) ==
    LET results == RetrieveResults(st, indices)
    IN  IF \/ Len(st.stored_chunks) = 0
           \/ create_embeddings(<< query >>, model_raises) = None
           \/ RetrieveRaises(st, indices)
        THEN [results |-> << >>, queues |-> queues, sent |-> FALSE]
        ELSE [results |-> results,
              queues |-> send_mcp_message(queues,
                            RetrievalMessage(st, query, results), now).queues,
              sent |-> TRUE]

\* retrieve_chunks with the outcome of its search: an exception raised by
\* vector_index.search is caught by the except branch, which returns [].
retrieve_chunks_searched(st, queues, now, query, model_raises, out) ==
    IF /\ out.raised
       /\ Len(st.stored_chunks) # 0
       /\ create_embeddings(<< query >>, model_raises) # None
    THEN [results |-> << >>, queues |-> queues, sent |-> FALSE]
    ELSE retrieve_chunks(st, queues, now, query, model_raises, out.indices)

-----------------------------------------------------------------------------
(* The store as the program holds it, and the calls run one at a time *)

TheStore == Store(vector_index, stored_chunks, document_mapping)

TheDisk == Disk(file_index, file_meta)

SetStore(st) ==
    /\ vector_index' = st.vector_index
    /\ stored_chunks' = st.stored_chunks
    /\ document_mapping' = st.document_mapping

SetDisk(disk) ==
    /\ file_index' = disk.file_index
    /\ file_meta' = disk.file_meta

NoQueues == [r \in {} |-> << >>]

\* Chunk lists handed to store_embeddings, the empty list included.
RECURSIVE SeqsUpTo(_, _)
SeqsUpTo(S, n) ==
    IF n = 0 THEN {<< >>}
    ELSE LET shorter == SeqsUpTo(S, n - 1)
         IN  shorter \cup { Append(s, x) : s \in shorter, x \in S }

Batches == SeqsUpTo(ChunkTexts, MaxStored)

\* The state after the module import: nothing on disk, initialize_vector_store
\* run, no queue yet.
InitProgram ==
    /\ message_queues = NoQueues
    /\ clock = 0
    /\ sent_log = EmptyLog
    /\ recv_log = EmptyLog
    /\ discarded = {}
    /\ file_index = NoIndexFile
    /\ file_meta = NoMetaFile
    /\ vector_index = initialize_vector_store(EmptyDisk).vector_index
    /\ stored_chunks = initialize_vector_store(EmptyDisk).stored_chunks
    /\ document_mapping = initialize_vector_store(EmptyDisk).document_mapping
    /\ proc = "up"
    /\ ret = [op |-> "import"]

NoThreads == [t \in {} |-> [pc |-> "idle"]]

\* A step of thread t: its place and local values become local.
SetThread(t, local) == threads' = [threads EXCEPT ![t] = local]

InitStore == InitProgram /\ threads = NoThreads

\* The longest of the index and the two lists in memory.
StoreSize ==
    Max(Len(vector_index), Max(Len(stored_chunks), Len(document_mapping)))

\* Whether the files lag behind the memory: a restart would not load the
\* store that is in memory now.
Unsaved(st, disk) == initialize_vector_store(disk) # st

\* What ret keeps of a store_embeddings call: its result, its arguments when
\* it succeeded, what went wrong in it (nothing for a call that returned at
\* the empty check), and whether the files lagged behind the memory when it
\* began.
StoreReturn(chunks, document_name, ok, fault, unsaved) ==
    [op |-> "store_embeddings", ok |-> ok,
     chunks |-> IF ok THEN chunks ELSE << >>,
     document_name |-> IF ok THEN document_name ELSE "",
     fault |-> IF chunks = << >> THEN "none" ELSE fault,
     unsaved |-> ok /\ unsaved]

\* What can go wrong in a store_embeddings call whose save goes through.
CallFaults == StoreFaults \ (SavePoints \ {"none"})

\* store_embeddings(chunks, document_name), from its first line to its return,
\* with one of the given faults.
StoreCall(faults) ==
    \E chunks \in Batches, document_name \in Docs, fault \in faults :
        LET r == store_embeddings(TheStore, TheDisk, chunks, document_name, fault)
        IN  /\ proc = "up"
            /\ ~HasMessage(message_queues, "LLMResponseAgent")
            /\ StoreSize + Len(chunks) <= MaxStored
            /\ SetStore(r.store)
            /\ SetDisk(r.disk)
            /\ ret' = StoreReturn(chunks, document_name, r.ok, fault,
                                  Unsaved(TheStore, TheDisk))
            /\ UNCHANGED << busVars, proc, threads >>

\* A store_embeddings call, the failures of save_vector_store included.
StoreEmbeddings == StoreCall(StoreFaults)

\* A store_embeddings call on a disk that takes every write.
StoreEmbeddingsSaved == StoreCall(CallFaults)

\* retrieve_chunks(query, top_k), from its first line to its return.
RetrieveChunks ==
    \E query \in Queries, top_k \in TopKs, model_raises \in BOOLEAN :
      \E out \in SearchOutcomes(vector_index, Embed(query),
                                Min(top_k, Len(stored_chunks))) :
        LET r == retrieve_chunks_searched(TheStore, message_queues, clock, query,
                                          model_raises, out)
            indices == out.indices
        IN  /\ proc = "up"
            /\ clock < MaxClock
            /\ ~HasMessage(message_queues, "LLMResponseAgent")
            /\ message_queues' = r.queues
            /\ clock' = IF r.sent THEN clock + 1 ELSE clock
            /\ ret' = [op |-> "retrieve_chunks", query |-> query, top_k |-> top_k,
                       results |-> r.results, sent |-> r.sent,
                       indices |-> IF r.sent THEN indices ELSE << >>]
            /\ UNCHANGED << sent_log, recv_log, discarded, storeVars, diskVars,
                           proc, threads >>

\* clear_vector_store()
ClearVectorStore ==
    LET r == clear_vector_store(TheStore, TheDisk)
    IN  /\ proc = "up"
        /\ ~HasMessage(message_queues, "LLMResponseAgent")
        /\ SetStore(r.store)
        /\ SetDisk(r.disk)
        /\ ret' = [op |-> "clear_vector_store"]
        /\ UNCHANGED << busVars, proc, threads >>

\* The caller of retrieve_chunks takes the envelope off the queue before the
\* next call on the store, as coordinate_query does; ret keeps the store's
\* last call.
TakeResults ==
    LET r == receive_mcp_message(message_queues, "LLMResponseAgent")
    IN  /\ proc = "up"
        /\ r.msg # None
        /\ message_queues' = r.queues
        /\ UNCHANGED << ret, clock, sent_log, recv_log, discarded, storeVars,
                       diskVars, proc, threads >>

NextStore ==
    StoreEmbeddingsSaved \/ RetrieveChunks \/ ClearVectorStore \/ TakeResults

SpecStore == InitStore /\ [][NextStore]_vars

\* save_vector_store() called on its own: the store in memory is written to
\* the two files, up to the point p where the write fails.
SaveVectorStore ==
    \E p \in SavePoints :
        /\ proc = "up"
        /\ SetDisk(save_vector_store(TheStore, TheDisk, p))
        /\ ret' = [op |-> "save_vector_store", ok |-> p = "none", fault |-> p]
        /\ UNCHANGED << busVars, storeVars, proc, threads >>

\* The store of one running process whose saves may fail: the memory is never
\* reloaded from the files.
NextSave == StoreEmbeddings \/ SaveVectorStore \/ ClearVectorStore

SpecSave == InitStore /\ [][NextSave]_vars

-----------------------------------------------------------------------------
(* The store across process deaths and restarts *)

\* The process dies inside the save_vector_store of a store_embeddings call,
\* at point p: the files stay as the interrupted save left them, the memory
\* is gone.
CrashInSave ==
    \E chunks \in Batches \ {<< >>}, document_name \in Docs, p \in SavePoints :
        LET r == store_embeddings(TheStore, TheDisk, chunks, document_name, p)
        IN  /\ proc = "up"
            /\ StoreSize + Len(chunks) <= MaxStored
            /\ SetDisk(r.disk)
            /\ SetStore(EmptyStore)
            /\ proc' = "down"
            /\ ret' = [op |-> "crash"]
            /\ UNCHANGED << busVars, threads >>

\* The process dies inside a save_vector_store called on its own, at point p.
CrashInSaveVectorStore ==
    \E p \in SavePoints \ {"none"} :
        /\ proc = "up"
        /\ SetDisk(save_vector_store(TheStore, TheDisk, p))
        /\ SetStore(EmptyStore)
        /\ proc' = "down"
        /\ ret' = [op |-> "crash"]
        /\ UNCHANGED << busVars, threads >>

\* The process of the program: the orders its string hashes give to the
\* document names.
Process(hash_order) == [pc |-> "idle", hash_order |-> hash_order]

HashOrder == threads["main"].hash_order

\* Whether the last call was a save_vector_store that got through, on its own
\* or at the end of store_embeddings.
JustSaved ==
    /\ ret.op \in {"store_embeddings", "save_vector_store"}
    /\ ret.ok /\ ret.fault = "none"

\* The process is stopped between two calls: the files stay, the memory is
\* gone. ret keeps, for a stop right after a save that got through, the
\* store the process held and what its get_vector_store_stats returned.
Exit ==
    /\ proc = "up"
    /\ SetStore(EmptyStore)
    /\ proc' = "down"
    /\ ret' = [op |-> "exit", saved |-> JustSaved,
               store |-> IF JustSaved THEN TheStore ELSE EmptyStore,
               stats |-> get_vector_store_stats(
                            IF JustSaved THEN TheStore ELSE EmptyStore, HashOrder)]
    /\ UNCHANGED << busVars, diskVars, threads >>

\* The process starts again, with the string hashes of a new process: the
\* module import runs initialize_vector_store.
Restart ==
    \E hash_order \in HashOrders :
        /\ proc = "down"
        /\ SetStore(initialize_vector_store(TheDisk))
        /\ proc' = "up"
        /\ threads' = [threads EXCEPT !["main"] = Process(hash_order)]
        /\ ret' = [op |-> "initialize_vector_store"]
        /\ UNCHANGED << busVars, diskVars >>

\* initialize_vector_store() called again in the running process: the store
\* in memory is replaced by what the files give. ret keeps whether the call
\* before it was a save that got through.
Reinitialize ==
    /\ proc = "up"
    /\ SetStore(initialize_vector_store(TheDisk))
    /\ ret' = [op |-> "initialize_vector_store", saved |-> JustSaved]
    /\ UNCHANGED << busVars, diskVars, proc, threads >>

InitPersist ==
    /\ InitProgram
    /\ \E hash_order \in HashOrders : threads = [t \in {"main"} |-> Process(hash_order)]

NextPersist ==
    \/ StoreEmbeddings \/ SaveVectorStore \/ ClearVectorStore \/ CrashInSave
    \/ CrashInSaveVectorStore \/ Exit \/ Restart \/ Reinitialize

SpecPersist == InitPersist /\ [][NextPersist]_vars

-----------------------------------------------------------------------------
(* ingestion_agent.py: chunk_text. A text is a sequence of characters. *)

\* break_point > chunk_size * 0.7. The product is a double; for every
\* chunk_size below 90 the comparison comes out as the exact one does.
BreakAccepted(break_point, chunk_size) == 10 * break_point > 7 * chunk_size

\* One pass of the while loop of chunk_text from position start: the chunk
\* before strip() and the end of its window.
Window(text, start, chunk_size) ==
    LET end == start + chunk_size
        chunk == PySlice(text, start, end)
        break_point == Max(RFind(chunk, "."), Max(RFind(chunk, "\n"), RFind(chunk, " ")))
    IN  IF end < Len(text) /\ BreakAccepted(break_point, chunk_size)
        THEN [chunk |-> PySlice(chunk, 0, break_point + 1),
              end |-> start + break_point + 1]
        ELSE [chunk |-> chunk, end |-> end]

\* Mutant: the next window starts one character after the end of the last.
NextStartSkip(end, overlap) == end + 1

\* start = end - overlap
NextStart(end, overlap) == end - overlap

\* The chunk_text call in progress: its arguments, the loop variable start and
\* the chunks list. The list keeps its first MaxChunks entries: more than any
\* call that returns can produce for these texts. windows keeps, for every
\* chunk appended, the values of start and end of its pass.
MaxChunks == MaxTextLen + 1

Chunker(pc, text, chunk_size, overlap, start, chunks) ==
    [pc |-> pc, text |-> text, chunk_size |-> chunk_size, overlap |-> overlap,
     start |-> start, chunks |-> chunks, windows |-> << >>]

Alphabet == {"a", " "}

\* The characters chunk_text looks for: '.', '\n' and ' '.
BreakChars == {".", "\n", " "}

\* Texts of the full length with two break characters among letters.
BreakTexts ==
    { [p \in 1..MaxTextLen |-> IF p = i THEN x ELSE IF p = j THEN y ELSE "a"] :
        i \in 1..MaxTextLen, j \in 1..MaxTextLen, x \in BreakChars, y \in BreakChars }

Texts == SeqsUpTo(Alphabet, MaxTextLen) \cup BreakTexts

\* The configurations tried: every chunk_size below the longest text, with
\* every overlap up to chunk_size itself (overlap = chunk_size is not valid).
Configs ==
    { c \in (1..(MaxTextLen - 1)) \X (0..(MaxTextLen - 1)) : c[2] <= c[1] }

\* Calls at the 70% threshold: chunk_size from 10 up, no overlap, and a text
\* one character longer than chunk_size with a single space in it.
BoundaryInputs ==
    { << [p \in 1..(cs + 1) |-> IF p = at THEN " " ELSE "a"], << cs, 0 >> >> :
        cs \in 10..MaxBoundarySize, at \in 1..MaxBoundarySize }

\* The calls made: every text with every configuration, and the calls at the
\* threshold.
ChunkInputs == (Texts \X Configs) \cup BoundaryInputs

ChunkerIdle == Chunker("idle", << >>, 1, 0, 0, << >>)

\* The call chunk_text(text, chunk_size, overlap) and its test "not text or
\* len(text) == 0": an empty text returns [].
ChunkEnter ==
    /\ threads["chunker"].pc = "idle"
    /\ \E in \in ChunkInputs :
       LET text == in[1]
           c == in[2]
       IN
        /\ IF Len(text) = 0
           THEN /\ SetThread("chunker", Chunker("done", text, c[1], c[2], 0, << >>))
                /\ ret' = [op |-> "chunk_text", chunks |-> << >>]
           ELSE /\ SetThread("chunker", Chunker("loop", text, c[1], c[2], 0, << >>))
                /\ UNCHANGED ret
        /\ UNCHANGED << busVars, storeVars, diskVars, proc >>

\* One pass of the loop "while start < text_length". A start that has run
\* below -MaxTextLen is followed no further.
ChunkLoop ==
    LET c == threads["chunker"]
        w == Window(c.text, c.start, c.chunk_size)
    IN  /\ c.pc = "loop"
        /\ c.start < Len(c.text)
        /\ c.start + MaxTextLen >= 0
        /\ SetThread("chunker",
              [c EXCEPT !.start = NextStart(w.end, c.overlap),
                        !.chunks = IF Len(c.chunks) < MaxChunks
                                   THEN Append(c.chunks, Strip(w.chunk))
                                   ELSE c.chunks,
                        !.windows = IF Len(c.chunks) < MaxChunks
                                    THEN Append(c.windows, << c.start, w.end >>)
                                    ELSE c.windows])
        /\ UNCHANGED << busVars, storeVars, diskVars, proc, ret >>

\* The loop ends and chunk_text returns chunks.
ChunkReturn ==
    LET c == threads["chunker"]
    IN  /\ c.pc = "loop"
        /\ c.start >= Len(c.text)
        /\ SetThread("chunker", [c EXCEPT !.pc = "done"])
        /\ ret' = [op |-> "chunk_text", chunks |-> c.chunks]
        /\ UNCHANGED << busVars, storeVars, diskVars, proc >>

InitChunk == InitProgram /\ threads = [t \in {"chunker"} |-> ChunkerIdle]

NextChunk == ChunkEnter \/ ChunkLoop \/ ChunkReturn

SpecChunk == InitChunk /\ [][NextChunk]_vars

-----------------------------------------------------------------------------
(* Claims on chunk_text *)

ValidConfig(c) == c.chunk_size > 0 /\ 0 <= c.overlap /\ c.overlap < c.chunk_size

\* C7: for every non-empty text and every configuration with chunk_size > 0
\* and 0 <= overlap < chunk_size, chunk_text returns, and returns at least
\* one chunk. The pass of the loop is a function of start alone, so a call
\* that returns never takes a pass that leaves start where it found it; and
\* a call that has returned has produced a chunk.
C7_TerminatesWithAChunk ==
    LET c == threads["chunker"]
    IN  (ValidConfig(c) /\ Len(c.text) > 0) =>
            /\ (c.pc = "loop" /\ c.start < Len(c.text)) =>
                   NextStart(Window(c.text, c.start, c.chunk_size).end, c.overlap)
                       # c.start
            /\ c.pc = "done" => Len(ret.chunks) >= 1

\* C8: with overlap >= chunk_size and a non-empty text, chunk_text rejects
\* the configuration at its entry: the loop is never entered and no chunk
\* is produced.
C8_RejectsOverlapNotBelowSize ==
    ( /\ threads["chunker"].pc # "idle"
      /\ threads["chunker"].overlap >= threads["chunker"].chunk_size
      /\ Len(threads["chunker"].text) > 0 ) =>
        /\ threads["chunker"].pc # "loop"
        /\ threads["chunker"].chunks = << >>

\* C22: when chunk_text returns for a non-empty text and a valid
\* configuration, the windows of its chunks cover the text: the first starts
\* at 0, each next one starts at or before the end of the one before it, the
\* last ends at or past the end of the text, so every position lies in a
\* window; and each chunk is the text of its window with the whitespace at
\* its ends removed.
C22_WindowsCoverText ==
    LET c == threads["chunker"]
        N == Len(c.windows)
    IN  (c.pc = "done" /\ ValidConfig(c) /\ Len(c.text) > 0) =>
            /\ N = Len(ret.chunks)
            /\ \A p \in 0..(Len(c.text) - 1) :
                  \E i \in 1..N : c.windows[i][1] <= p /\ p < c.windows[i][2]
            /\ \A i \in 1..(N - 1) : c.windows[i + 1][1] <= c.windows[i][2]
            /\ \A i \in 1..N :
                  /\ c.windows[i][1] >= 0
                  /\ ret.chunks[i] =
                        Strip(SubSeq(c.text, c.windows[i][1] + 1,
                                     Min(c.windows[i][2], Len(c.text))))

\* C22 witness: a call returned three chunks, one of them cut at a space and
\* shorter than its window once stripped.
C22_Witness ==
    LET c == threads["chunker"]
    IN  /\ c.pc = "done" /\ ValidConfig(c) /\ c.overlap > 0
        /\ Len(c.windows) = 3
        /\ \E i \in 1..3 :
              /\ c.windows[i][2] - c.windows[i][1] < c.chunk_size
              /\ c.windows[i][2] < Len(c.text)
              /\ Len(ret.chunks[i]) < c.windows[i][2] - c.windows[i][1]

\* The positions of the text that the i-th chunk was taken from.
SourceRange(c, i) ==
    { p \in 0..(Len(c.text) - 1) : c.windows[i][1] <= p /\ p < c.windows[i][2] }

\* C24: in a chunk_text call with a valid configuration, every next window
\* starts overlap characters before the end of the one before it, and the
\* source ranges of two consecutive chunks share exactly overlap characters
\* of the text, the last chunk included.
C24_ConsecutiveChunksShareOverlap ==
    LET c == threads["chunker"]
    IN  (c.pc \in {"loop", "done"} /\ ValidConfig(c)) =>
            \A i \in 1..(Len(c.windows) - 1) :
                /\ c.windows[i + 1][1] = c.windows[i][2] - c.overlap
                /\ Cardinality(SourceRange(c, i) \cap SourceRange(c, i + 1))
                       = c.overlap

\* The break point the priority rule names in a window: the last '.', else
\* the last '\n', else the last ' ', else -1.
PriorityBreak(chunk) ==
    IF RFind(chunk, ".") >= 0 THEN RFind(chunk, ".")
    ELSE IF RFind(chunk, "\n") >= 0 THEN RFind(chunk, "\n")
    ELSE RFind(chunk, " ")

\* C25: in a pass of chunk_text whose window stops short of the text end and
\* holds more than one kind of break character, the break point tried is
\* the one of highest priority, not the last one: the window ends after it
\* when it is accepted and keeps chunk_size characters when it is not.
C25_BreakByPriority ==
    LET c == threads["chunker"]
    IN  (c.pc \in {"loop", "done"} /\ ValidConfig(c)) =>
            \A i \in 1..Len(c.windows) :
                LET start == c.windows[i][1]
                    chunk == PySlice(c.text, start, start + c.chunk_size)
                    b == PriorityBreak(chunk)
                IN  ( /\ start >= 0
                      /\ start + c.chunk_size < Len(c.text)
                      /\ Cardinality(Range(chunk) \cap BreakChars) > 1 ) =>
                        c.windows[i][2] =
                            IF BreakAccepted(b, c.chunk_size)
                            THEN start + b + 1 ELSE start + c.chunk_size

\* C26: in a pass of chunk_text whose window stops short of the text end,
\* the break point found is accepted exactly when 10 times its offset is at
\* least 7 times chunk_size, the value 70% itself included; the window then
\* ends after it, and otherwise keeps chunk_size characters.
C26_BreakAtOrPastSeventyPercent ==
    LET c == threads["chunker"]
    IN  (c.pc \in {"loop", "done"} /\ ValidConfig(c)) =>
            \A i \in 1..Len(c.windows) :
                LET start == c.windows[i][1]
                    chunk == PySlice(c.text, start, start + c.chunk_size)
                    b == Max(RFind(chunk, "."),
                             Max(RFind(chunk, "\n"), RFind(chunk, " ")))
                IN  (start >= 0 /\ start + c.chunk_size < Len(c.text)) =>
                        c.windows[i][2] =
                            IF 10 * b >= 7 * c.chunk_size
                            THEN start + b + 1 ELSE start + c.chunk_size

-----------------------------------------------------------------------------
(* Claims on the vector store *)

\* The lengths of the three parallel collections of a store.
Aligned(st) ==
    /\ Len(st.vector_index) = Len(st.stored_chunks)
    /\ Len(st.stored_chunks) = Len(st.document_mapping)

\* C1: starting from an empty store, after any sequence of store_embeddings,
\* retrieve_chunks and clear_vector_store calls run one at a time, failing
\* calls included, the index holds as many vectors as stored_chunks holds
\* chunks and document_mapping holds names.
C1_ParallelLengths == Aligned(TheStore)

\* C1 witness: a failed store_embeddings call on a store that holds two entries.
C1_Witness ==
    /\ ret.op = "store_embeddings" /\ ~ret.ok
    /\ Len(vector_index) = 2 /\ Len(stored_chunks) = 2

\* C2: whenever the process died inside save_vector_store, the index file and
\* the metadata file, when both can be read, hold the same number of entries.
C2_CrashLeavesConsistentPair ==
    (ret.op = "crash" /\ proc = "down" /\ Loadable(TheDisk)) =>
        /\ file_index.ntotal = Len(file_meta.chunks)
        /\ file_index.ntotal = Len(file_meta.documents)

\* C3: initialize_vector_store, finding both files, leaves an empty store when
\* the metadata count differs from the index count, and loads the snapshot
\* only when the counts agree.
C3_LoadRejectsMismatch ==
    (ret.op = "initialize_vector_store" /\ FilesExist(TheDisk)) =>
        IF /\ Loadable(TheDisk)
           /\ file_index.ntotal = Len(file_meta.chunks)
           /\ file_index.ntotal = Len(file_meta.documents)
        THEN TheStore = Store(ReadIndex(file_index), file_meta.chunks,
                              file_meta.documents)
        ELSE TheStore = EmptyStore

\* The string hashes of some process, for what does not depend on them.
AnyHashOrder == CHOOSE o \in HashOrders : TRUE

\* C9: a successful store_embeddings(chunks, document_name) with N chunks
\* grows the index, stored_chunks and document_mapping by N each; the chunks
\* go to the tail in input order, each with document_name and its own
\* embedding, and the earlier entries keep their places.
C9_AppendAtTail ==
    [][ (ret'.op = "store_embeddings" /\ ret'.ok) =>
          LET N == Len(ret'.chunks)
              order == AnyHashOrder
              before == get_vector_store_stats(TheStore, order)
              after == get_vector_store_stats(Store(vector_index', stored_chunks',
                                                    document_mapping'), order)
          IN  /\ N >= 1
              /\ after.index_size = before.index_size + N
              /\ after.total_chunks = before.total_chunks + N
              /\ Len(document_mapping') = Len(document_mapping) + N
              /\ stored_chunks' = stored_chunks \o ret'.chunks
              /\ document_mapping' =
                    document_mapping \o [i \in 1..N |-> ret'.document_name]
              /\ vector_index' =
                    vector_index \o [i \in 1..N |-> Embed(ret'.chunks[i])] ]_vars

\* C9 witness: a successful call has appended to a store that was not empty.
C9_Witness ==
    /\ ret.op = "store_embeddings" /\ ret.ok
    /\ Len(ret.chunks) >= 1
    /\ Len(stored_chunks) > Len(ret.chunks)

\* C11: a store_embeddings call in which the embedding call fails returns
\* False and leaves the index, stored_chunks, document_mapping and both
\* files as they were.
C11_EmbedFailureChangesNothing ==
    [][ (ret'.op = "store_embeddings" /\ ret'.fault = "embed") =>
          /\ ~ret'.ok
          /\ UNCHANGED << storeVars, diskVars >> ]_vars

\* C11 witness: the embedding call failed on a store that holds entries and
\* has its files on disk.
C11_Witness ==
    /\ ret.op = "store_embeddings" /\ ret.fault = "embed" /\ ~ret.ok
    /\ Len(stored_chunks) >= 1
    /\ file_index.state = "whole" /\ file_meta.state = "whole"

\* C12: a store_embeddings call whose save_vector_store fails with an I/O
\* error keeps its append in memory, where a search over the whole store
\* finds the new entries; and a call whose save succeeds leaves in the files
\* every entry that is in memory, those of earlier failed saves included.
C12_FailedSaveKeepsMemory ==
    [][ (ret'.op = "store_embeddings" /\ ret'.ok) =>
          LET after == Store(vector_index', stored_chunks', document_mapping')
              N == Len(ret'.chunks)
              new == { << ret'.chunks[i], ret'.document_name >> : i \in 1..N }
          IN  /\ ret'.fault # "none" =>
                    /\ stored_chunks' = stored_chunks \o ret'.chunks
                    /\ Len(vector_index') = Len(vector_index) + N
                    /\ \A q \in Queries :
                         \A indices \in FaissSearch(vector_index', Embed(q),
                                                    Len(stored_chunks')) :
                            /\ ~RetrieveRaises(after, indices)
                            /\ new \subseteq Range(RetrieveResults(after, indices))
              /\ ret'.fault = "none" =>
                    /\ file_index' = IndexFile(vector_index')
                    /\ file_meta' = MetaFile(stored_chunks', document_mapping')
                    /\ ~Unsaved(after, Disk(file_index', file_meta')) ]_vars

\* C12 witness: a call has saved a store whose earlier entries had not
\* reached the files, because the save of the call that appended them failed.
C12_Witness ==
    /\ ret.op = "store_embeddings" /\ ret.ok /\ ret.fault = "none" /\ ret.unsaved
    /\ Len(stored_chunks) > Len(ret.chunks)
    /\ file_index = IndexFile(vector_index)
    /\ file_meta = MetaFile(stored_chunks, document_mapping)

\* C13: initialize_vector_store after a save_vector_store that succeeded, on
\* its own or at the end of store_embeddings, in the same process or in the
\* process started next, gives back the store that was saved: the same
\* vectors, stored_chunks and document_mapping, the same output of
\* get_vector_store_stats and, for every query and k, the same search.
C13_SaveLoadRoundTrip ==
    [][ LET restarted == ret.op = "exit"
            before == IF restarted THEN ret.store ELSE TheStore
            stats_before == IF restarted THEN ret.stats
                            ELSE get_vector_store_stats(TheStore, HashOrder)
            after == Store(vector_index', stored_chunks', document_mapping')
        IN  ( /\ JustSaved \/ (restarted /\ ret.saved)
              /\ ret'.op = "initialize_vector_store" /\ proc' = "up" ) =>
              /\ after = before
              /\ get_vector_store_stats(after, HashOrder') = stats_before
              /\ \A q \in Queries, k \in 1..Len(before.stored_chunks) :
                    FaissSearch(after.vector_index, Embed(q), k)
                        = FaissSearch(before.vector_index, Embed(q), k) ]_vars

\* C14: a retrieve_chunks call that does not fail returns exactly
\* min(top_k, number of indexed vectors) results; with top_k above the number
\* of indexed vectors that is one result per indexed vector.
C14_ResultCount ==
    (ret.op = "retrieve_chunks" /\ ret.sent) =>
        /\ Len(ret.results) = Min(ret.top_k, Len(vector_index))
        /\ ret.top_k > Len(vector_index) => Len(ret.results) = Len(vector_index)

\* C14 witness: a search with the default top_k = 5 on a store of two vectors
\* returned two results.
C14_Witness ==
    /\ ret.op = "retrieve_chunks" /\ ret.sent
    /\ ret.top_k = DefaultTopK /\ Len(vector_index) = 2
    /\ Len(ret.results) = 2

\* C15: the results of a search come by non-decreasing squared Euclidean
\* distance to the query vector, and of two entries at equal distance the
\* one inserted earlier comes first: result j is the chunk and the document
\* at the j-th position the search returned.
C15_OrderedByDistanceThenAge ==
    (ret.op = "retrieve_chunks" /\ ret.sent) =>
        LET dist(j) == L2(vector_index[ret.indices[j] + 1], Embed(ret.query))
        IN  /\ Len(ret.results) = Len(ret.indices)
            /\ \A i, j \in 1..Len(ret.indices) :
                  i < j =>
                    /\ dist(i) <= dist(j)
                    /\ dist(i) = dist(j) => ret.indices[i] < ret.indices[j]
            /\ \A j \in 1..Len(ret.indices) :
                  ret.results[j] = << stored_chunks[ret.indices[j] + 1],
                                      document_mapping[ret.indices[j] + 1] >>

\* C15 witness: a search on two vectors at the same distance from the query
\* returned the earlier-inserted one first, each with its document.
C15_Witness ==
    /\ ret.op = "retrieve_chunks" /\ ret.sent /\ ret.query = "q1"
    /\ Len(vector_index) = 2 /\ vector_index[1] = vector_index[2]
    /\ document_mapping = << "a.txt", "b.txt" >>
    /\ ret.indices = << 0, 1 >>
    /\ ret.results = << << "c1", "a.txt" >>, << "c1", "b.txt" >> >>

\* The positions of the store whose vector is the embedding of the query.
AtQuery(index, query) == { p \in 1..Len(index) : index[p] = Embed(query) }

\* C16: every result of a search is the chunk and the document name that
\* stand at the position of the matched vector, and that vector is the
\* embedding of that chunk; so a top_k = 1 search for a vector that is stored
\* at one position only returns the chunk and the document name of that
\* position, at distance 0.
C16_ResultPairsChunkWithItsDocument ==
    (ret.op = "retrieve_chunks" /\ ret.sent) =>
        /\ \A j \in 1..Len(ret.results) :
              LET p == ret.indices[j] + 1
              IN  /\ ret.results[j] = << stored_chunks[p], document_mapping[p] >>
                  /\ vector_index[p] = Embed(stored_chunks[p])
        /\ (ret.top_k = 1 /\ Cardinality(AtQuery(vector_index, ret.query)) = 1) =>
              LET p == CHOOSE x \in AtQuery(vector_index, ret.query) : TRUE
              IN  /\ ret.results = << << stored_chunks[p], document_mapping[p] >> >>
                  /\ L2(vector_index[p], Embed(ret.query)) = 0

\* C16 witness: after a batch from "a.txt" and a batch from "b.txt", a
\* top_k = 1 search for the vector of the "b.txt" chunk returned that chunk
\* with "b.txt".
C16_Witness ==
    /\ ret.op = "retrieve_chunks" /\ ret.sent /\ ret.top_k = 1 /\ ret.query = "q1"
    /\ stored_chunks = << "c2", "c1" >>
    /\ document_mapping = << "a.txt", "b.txt" >>
    /\ ret.results = << << "c1", "b.txt" >> >>

\* C23: retrieve_chunks called with top_k = 0 does not answer as a search
\* without results does: what it returns is not the empty list, and it sends
\* no envelope.
C23_ZeroKIsRejected ==
    (ret.op = "retrieve_chunks" /\ ret.top_k = 0) =>
        /\ ret.results # << >>
        /\ ~ret.sent

\* C6: while retrieve_chunks runs next to store_embeddings, at every point
\* where the search reads the store (the search itself, the results loop, the
\* logging loop) the index, stored_chunks and document_mapping have equal
\* lengths, and the search does not end in its except branch.
C6_SearchSeesWholeStore ==
    /\ threads["reader"].pc \in {"search", "results", "log", "build"} =>
          Aligned(TheStore)
    /\ ret.op = "retrieve_chunks" => ~ret.raised

-----------------------------------------------------------------------------
(* The message bus, calls run one at a time *)

\* Receivers that envelopes are sent to; "LLMResponseAgent" is never sent to
\* here and stays a name without a queue.
SentTo == {"R", "RetrievalAgent"}

\* Messages handed to send_mcp_message: well-formed ones, a value that is not
\* a dictionary, and dictionaries that lack one required field.
GoodMessages ==
    { Message(TRUE, required_fields, "IngestionAgent", r, "p") : r \in SentTo }

BadMessages ==
    { Message(FALSE, {}, "IngestionAgent", "R", "p") } \cup
    { Message(TRUE, required_fields \ {f}, "IngestionAgent", "R", "p") :
        f \in required_fields }

\* send_mcp_message(message)
SendMcp ==
    \E m \in GoodMessages \cup BadMessages :
        LET r == send_mcp_message(message_queues, m, clock)
        IN  /\ clock < MaxSends
            /\ message_queues' = r.queues
            /\ clock' = IF r.ok THEN clock + 1 ELSE clock
            /\ sent_log' = LogSend(sent_log, m, clock)
            /\ ret' = [op |-> "send_mcp_message", ok |-> r.ok,
                       is_dict |-> m.is_dict, keys |-> m.keys]
            /\ UNCHANGED << recv_log, discarded, storeVars, diskVars, proc, threads >>

\* receive_mcp_message(receiver_name)
ReceiveMcp ==
    \E name \in Receivers :
        LET r == receive_mcp_message(message_queues, name)
        IN  /\ message_queues' = r.queues
            /\ recv_log' = LogRecv(recv_log, name, r.msg)
            /\ ret' = [op |-> "receive_mcp_message", receiver |-> name, msg |-> r.msg]
            /\ UNCHANGED << clock, sent_log, discarded, storeVars, diskVars, proc,
                           threads >>

\* peek_mcp_message(receiver_name)
PeekMcp ==
    \E name \in Receivers :
        LET r == peek_mcp_message(message_queues, name)
        IN  /\ message_queues' = r.queues
            /\ ret' = [op |-> "peek_mcp_message", receiver |-> name,
                       count |-> r.count]
            /\ UNCHANGED << clock, sent_log, recv_log, discarded, storeVars,
                           diskVars, proc, threads >>

\* clear_mcp_queue(receiver_name)
ClearMcp ==
    \E name \in Receivers :
        /\ message_queues' = clear_mcp_queue(message_queues, name)
        /\ discarded' = discarded \cup Range(QueueGet(message_queues, name))
        /\ ret' = [op |-> "clear_mcp_queue", receiver |-> name]
        /\ UNCHANGED << clock, sent_log, recv_log, storeVars, diskVars, proc, threads >>

InitBus == InitProgram /\ threads = NoThreads

NextBus == SendMcp \/ ReceiveMcp \/ PeekMcp \/ ClearMcp

SpecBus == InitBus /\ [][NextBus]_vars

-----------------------------------------------------------------------------
(* The message bus, calls of several threads interleaved. A thread runs one
   call at a time; between two accesses to message_queues other threads may
   run. Each list operation (append, pop, clear, the creation of a missing
   key) is one step of the interpreter. *)

BusThreads == {"t1", "t2", "t3"}

\* A bus thread: where it stands and the envelope it is sending.
BusThread(pc, env) == [pc |-> pc, env |-> env]

Idle == BusThread("idle", None)

\* send_mcp_message up to the stamping of the envelope: a malformed message
\* returns False at once.
SendBegin(t) ==
    \E m \in { g \in GoodMessages : g.receiver = "R" } \cup BadMessages :
        /\ threads[t].pc = "idle"
        /\ clock < MaxSends
        /\ IF WellFormed(m)
           THEN /\ clock' = clock + 1
                /\ SetThread(t, BusThread("send_getitem", Some(Envelope(m, clock))))
                /\ UNCHANGED ret
           ELSE /\ ret' = [op |-> "send_mcp_message", ok |-> FALSE]
                /\ UNCHANGED << clock, threads >>
        /\ UNCHANGED << message_queues, sent_log, recv_log, discarded, storeVars,
                       diskVars, proc >>

\* message_queues[receiver]: the defaultdict creates the list of a missing key.
SendGetItem(t) ==
    /\ threads[t].pc = "send_getitem"
    /\ message_queues' = QueueSet(message_queues, "R", QueueGet(message_queues, "R"))
    /\ SetThread(t, BusThread("send_append", threads[t].env))
    /\ UNCHANGED << clock, sent_log, recv_log, discarded, storeVars, diskVars,
                   proc, ret >>

\* .append(message) on that list, and the return of True.
SendAppend(t) ==
    /\ threads[t].pc = "send_append"
    /\ message_queues' = Enqueue(message_queues, threads[t].env[1])
    /\ sent_log' = [sent_log EXCEPT !["R"] = Append(@, threads[t].env[1])]
    /\ SetThread(t, Idle)
    /\ ret' = [op |-> "send_mcp_message", ok |-> TRUE]
    /\ UNCHANGED << clock, recv_log, discarded, storeVars, diskVars, proc >>

\* receive_mcp_message: the test "receiver_name in message_queues and
\* message_queues[receiver_name]"; when it fails the call returns None.
RecvTest(t) ==
    /\ threads[t].pc = "idle"
    /\ IF HasMessage(message_queues, "R")
       THEN /\ SetThread(t, BusThread("recv_pop", None))
            /\ UNCHANGED ret
       ELSE /\ ret' = [op |-> "receive_mcp_message", receiver |-> "R",
                       msg |-> None, raised |-> FALSE]
            /\ UNCHANGED threads
    /\ UNCHANGED << busVars, storeVars, diskVars, proc >>

\* receive_mcp_message: message_queues[receiver_name].pop(0). On a list
\* emptied since the test, pop raises IndexError, which the function catches
\* and answers with None.
RecvPop(t) ==
    /\ threads[t].pc = "recv_pop"
    /\ IF QueueGet(message_queues, "R") # << >>
       THEN /\ message_queues' = QueueSet(message_queues, "R",
                                          Pop(message_queues["R"]).rest)
            /\ recv_log' = [recv_log EXCEPT !["R"] =
                                Append(@, Pop(message_queues["R"]).item)]
            /\ ret' = [op |-> "receive_mcp_message", receiver |-> "R",
                       msg |-> Some(Pop(message_queues["R"]).item), raised |-> FALSE]
       ELSE /\ ret' = [op |-> "receive_mcp_message", receiver |-> "R",
                       msg |-> None, raised |-> TRUE]
            /\ UNCHANGED << message_queues, recv_log >>
    /\ SetThread(t, Idle)
    /\ UNCHANGED << clock, sent_log, discarded, storeVars, diskVars, proc >>

\* clear_mcp_queue: the test "receiver_name in message_queues".
ClearTest(t) ==
    /\ threads[t].pc = "idle"
    /\ IF "R" \in DOMAIN message_queues
       THEN /\ SetThread(t, BusThread("clear_list", None))
            /\ UNCHANGED ret
       ELSE /\ ret' = [op |-> "clear_mcp_queue", receiver |-> "R"]
            /\ UNCHANGED threads
    /\ UNCHANGED << busVars, storeVars, diskVars, proc >>

\* clear_mcp_queue: message_queues[receiver_name].clear()
ClearList(t) ==
    /\ threads[t].pc = "clear_list"
    /\ message_queues' = clear_mcp_queue(message_queues, "R")
    /\ discarded' = discarded \cup Range(QueueGet(message_queues, "R"))
    /\ SetThread(t, Idle)
    /\ ret' = [op |-> "clear_mcp_queue", receiver |-> "R"]
    /\ UNCHANGED << clock, sent_log, recv_log, storeVars, diskVars, proc >>

InitBusThreads == InitProgram /\ threads = [t \in BusThreads |-> Idle]

NextBusThreads ==
    \E t \in BusThreads :
        \/ SendBegin(t) \/ SendGetItem(t) \/ SendAppend(t)
        \/ RecvTest(t) \/ RecvPop(t)
        \/ ClearTest(t) \/ ClearList(t)

SpecBusThreads == InitBusThreads /\ [][NextBusThreads]_vars

-----------------------------------------------------------------------------
(* The vector store with store_embeddings in one thread ("writer") and
   retrieve_chunks in another ("reader"). The code takes no lock: the other
   thread may run between any two accesses to the index and the two lists.
   The three reads of one pass of the results loop are one step here, and so
   is one pass of the logging loop. vector_index.add and vector_index.search release the
   interpreter lock and race on the index. *)

Writer(pc, chunks, document_name, done) ==
    [pc |-> pc, chunks |-> chunks, document_name |-> document_name, done |-> done]

WriterIdle == Writer("idle", << >>, "", 0)

\* done counts the passes made of the loop the reader is in; message is the
\* message built for the send and env the envelope stamped.
Reader(pc, query, k, indices, done, results) ==
    [pc |-> pc, query |-> query, k |-> k, indices |-> indices, done |-> done,
     results |-> results, message |-> None, env |-> None]

ReaderIdle == Reader("idle", "", 0, << >>, 0, << >>)

RetrieveReturn(query, results, sent, raised) ==
    [op |-> "retrieve_chunks", query |-> query, results |-> results,
     sent |-> sent, raised |-> raised]

\* store_embeddings up to create_embeddings: an empty chunk list or a failing
\* model returns False.
WStart ==
    \E chunks \in Batches, document_name \in Docs, model_raises \in BOOLEAN :
        /\ proc = "up"
        /\ threads["writer"].pc = "idle"
        /\ Len(vector_index) + Len(chunks) <= MaxStored
        /\ IF chunks = << >> \/ create_embeddings(chunks, model_raises) = None
           THEN /\ ret' = StoreReturn(chunks, document_name, FALSE,
                                      IF model_raises THEN "embed" ELSE "none", FALSE)
                /\ UNCHANGED threads
           ELSE /\ SetThread("writer", Writer("add", chunks, document_name, 0))
                /\ UNCHANGED ret
        /\ UNCHANGED << busVars, storeVars, diskVars, proc >>

\* vector_index.add(embeddings) is entered: the library copies the vectors
\* with the interpreter lock released, so the other thread runs meanwhile.
WAddBegin ==
    /\ proc = "up"
    /\ threads["writer"].pc = "add"
    /\ SetThread("writer", [threads["writer"] EXCEPT !.pc = "adding"])
    /\ UNCHANGED << busVars, storeVars, diskVars, proc, ret >>

\* vector_index.add(embeddings) returns: the index holds the new vectors.
WAdd ==
    /\ proc = "up"
    /\ threads["writer"].pc = "adding"
    /\ vector_index' = IndexAdd(vector_index,
                                create_embeddings(threads["writer"].chunks, FALSE)[1])
    /\ SetThread("writer", [threads["writer"] EXCEPT !.pc = "append_chunk"])
    /\ UNCHANGED << busVars, stored_chunks, document_mapping, diskVars, proc, ret >>

\* stored_chunks.append(chunk), for the next chunk of the loop
WAppendChunk ==
    LET w == threads["writer"]
    IN  /\ proc = "up"
        /\ w.pc = "append_chunk"
        /\ stored_chunks' = ChunksAppend(stored_chunks, << w.chunks[w.done + 1] >>)
        /\ SetThread("writer", [w EXCEPT !.pc = "append_doc"])
        /\ UNCHANGED << busVars, vector_index, document_mapping, diskVars, proc, ret >>

\* document_mapping.append(document_name), for the same chunk
WAppendDoc ==
    LET w == threads["writer"]
    IN  /\ proc = "up"
        /\ w.pc = "append_doc"
        /\ document_mapping' = DocsAppend(document_mapping,
                                          << w.chunks[w.done + 1] >>, w.document_name)
        /\ SetThread("writer",
                     [w EXCEPT !.done = w.done + 1,
                               !.pc = IF w.done + 1 < Len(w.chunks)
                                      THEN "append_chunk" ELSE "save"])
        /\ UNCHANGED << busVars, vector_index, stored_chunks, diskVars, proc, ret >>

\* save_vector_store() and the return of True
WSave ==
    \E p \in SavePoints :
        LET w == threads["writer"]
        IN  /\ proc = "up"
            /\ w.pc = "save"
            /\ SetDisk(save_vector_store(TheStore, TheDisk, p))
            /\ SetThread("writer", WriterIdle)
            /\ ret' = StoreReturn(w.chunks, w.document_name, TRUE, p, FALSE)
            /\ UNCHANGED << busVars, storeVars, proc >>

\* retrieve_chunks up to the query embedding: an empty stored_chunks or a
\* failing model returns [].
RStart ==
    \E query \in Queries, model_raises \in BOOLEAN :
        /\ proc = "up"
        /\ threads["reader"].pc = "idle"
        /\ clock < MaxClock
        /\ ~HasMessage(message_queues, "LLMResponseAgent")
        /\ IF \/ Len(stored_chunks) = 0
              \/ create_embeddings(<< query >>, model_raises) = None
           THEN /\ ret' = RetrieveReturn(query, << >>, FALSE, FALSE)
                /\ UNCHANGED threads
           ELSE /\ SetThread("reader", Reader("len", query, 0, << >>, 0, << >>))
                /\ UNCHANGED ret
        /\ UNCHANGED << busVars, storeVars, diskVars, proc >>

\* min(top_k, len(stored_chunks)), the second argument of the search
RLen ==
    \E top_k \in TopKs :
        /\ proc = "up"
        /\ threads["reader"].pc = "len"
        /\ SetThread("reader", [threads["reader"] EXCEPT
                                   !.pc = "search", !.k = Min(top_k, Len(stored_chunks))])
        /\ UNCHANGED << busVars, storeVars, diskVars, proc, ret >>

\* What vector_index.search(query_embedding, k) can do while the given
\* thread state of the writer holds. With no add under way these are the
\* outcomes of SearchOutcomes. While vector_index.add runs in the other
\* thread the two calls race inside the library on ntotal and on the
\* buffer of vectors, which add grows and may move: the search sees ntotal
\* as it was or as it will be and measures distances on vectors that may be
\* stale or half copied, so it may return any k distinct positions below
\* that ntotal in any order (-1 beyond it), or read freed memory and end
\* the process.
RacingSearchOutcomes(index, q, k, w) ==
    LET Picks(n) ==
            { [j \in 1..k |-> IF j <= Min(k, n) THEN s[j] ELSE 0 - 1] :
                s \in { t \in [1..Min(k, n) -> 0..(n - 1)] :
                          \A a, b \in 1..Min(k, n) : a < b => t[a] # t[b] } }
    IN  IF w.pc # "adding"
        THEN { [raised |-> o.raised, indices |-> o.indices, crashed |-> FALSE] :
                 o \in SearchOutcomes(index, q, k) }
        ELSE { [raised |-> FALSE, indices |-> i, crashed |-> FALSE] :
                 i \in Picks(Len(index)) \cup Picks(Len(index) + Len(w.chunks)) }
             \cup { [raised |-> FALSE, indices |-> << >>, crashed |-> TRUE] }
             \cup (IF k <= 0
                   THEN { [raised |-> TRUE, indices |-> << >>, crashed |-> FALSE] }
                   ELSE {})

\* vector_index.search(query_embedding, k); an exception it raises ends the
\* call in the except branch, which returns [] and sends nothing.
RSearch ==
    LET r == threads["reader"]
    IN  \E out \in RacingSearchOutcomes(vector_index, Embed(r.query), r.k,
                                        threads["writer"]) :
            /\ proc = "up"
            /\ r.pc = "search"
            /\ IF out.crashed
               THEN /\ proc' = "down"
                    /\ UNCHANGED << threads, ret >>
               ELSE IF out.raised
               THEN /\ SetThread("reader", ReaderIdle)
                    /\ ret' = RetrieveReturn(r.query, << >>, FALSE, TRUE)
                    /\ UNCHANGED proc
               ELSE /\ SetThread("reader",
                                 [r EXCEPT !.pc = IF out.indices = << >>
                                                  THEN "build" ELSE "results",
                                           !.indices = out.indices])
                    /\ UNCHANGED << proc, ret >>
            /\ UNCHANGED << busVars, storeVars, diskVars >>

\* One pass of the results loop, for the next idx of indices[0]; an IndexError
\* ends the call in the except branch, which returns [].
RResult ==
    LET r == threads["reader"]
        one == << r.indices[r.done + 1] >>
        last == r.done + 1 = Len(r.indices)
    IN  /\ proc = "up"
        /\ r.pc = "results"
        /\ IF one[1] < Len(stored_chunks) /\
                 (~PyInRange(stored_chunks, one[1]) \/ ~PyInRange(document_mapping, one[1]))
           THEN /\ SetThread("reader", ReaderIdle)
                /\ ret' = RetrieveReturn(r.query, << >>, FALSE, TRUE)
           ELSE /\ SetThread("reader",
                       [r EXCEPT !.done = IF last THEN 0 ELSE r.done + 1,
                                 !.pc = IF last THEN "log" ELSE "results",
                                 !.results = r.results \o RetrieveResults(TheStore, one)])
                /\ UNCHANGED ret
        /\ UNCHANGED << busVars, storeVars, diskVars, proc >>

\* One pass of the logging loop: document_mapping[idx] for the next idx of
\* indices[0], written to the log; an IndexError returns [].
RLog ==
    LET r == threads["reader"]
        idx == r.indices[r.done + 1]
        last == r.done + 1 = Len(r.indices)
    IN  /\ proc = "up"
        /\ r.pc = "log"
        /\ IF ~PyInRange(document_mapping, idx)
           THEN /\ SetThread("reader", ReaderIdle)
                /\ ret' = RetrieveReturn(r.query, << >>, FALSE, TRUE)
           ELSE /\ SetThread("reader",
                       [r EXCEPT !.done = IF last THEN 0 ELSE r.done + 1,
                                 !.pc = IF last THEN "build" ELSE "log"])
                /\ UNCHANGED ret
        /\ UNCHANGED << busVars, storeVars, diskVars, proc >>

\* message = {...}: the message is built from the results, with
\* len(set(document_mapping)) as it is now.
RBuild ==
    LET r == threads["reader"]
    IN  /\ proc = "up"
        /\ r.pc = "build"
        /\ SetThread("reader",
               [r EXCEPT !.pc = "stamp",
                         !.message = Some(RetrievalMessage(TheStore, r.query, r.results))])
        /\ UNCHANGED << busVars, storeVars, diskVars, proc, ret >>

\* send_mcp_message(message) up to the stamping of the envelope.
RStamp ==
    LET r == threads["reader"]
    IN  /\ proc = "up"
        /\ r.pc = "stamp"
        /\ clock' = clock + 1
        /\ SetThread("reader", [r EXCEPT !.pc = "send_getitem", !.message = None,
                                         !.env = Some(Envelope(r.message[1], clock))])
        /\ UNCHANGED << message_queues, sent_log, recv_log, discarded, storeVars,
                       diskVars, proc, ret >>

\* message_queues[receiver]: the defaultdict creates the list of a missing key.
RGetItem ==
    LET r == threads["reader"]
    IN  /\ proc = "up"
        /\ r.pc = "send_getitem"
        /\ message_queues' = QueueSet(message_queues, r.env[1].receiver,
                                      QueueGet(message_queues, r.env[1].receiver))
        /\ SetThread("reader", [r EXCEPT !.pc = "send_append"])
        /\ UNCHANGED << clock, sent_log, recv_log, discarded, storeVars, diskVars,
                       proc, ret >>

\* .append(message) on that list, the return of True and "return results".
RSend ==
    LET r == threads["reader"]
    IN  /\ proc = "up"
        /\ r.pc = "send_append"
        /\ message_queues' = Enqueue(message_queues, r.env[1])
        /\ SetThread("reader", ReaderIdle)
        /\ ret' = RetrieveReturn(r.query, r.results, TRUE, FALSE)
        /\ UNCHANGED << clock, sent_log, recv_log, discarded, storeVars, diskVars,
                       proc >>

InitStoreThreads ==
    InitProgram /\ threads = [t \in {"writer", "reader"} |->
                                IF t = "writer" THEN WriterIdle ELSE ReaderIdle]

NextStoreThreads ==
    \/ WStart \/ WAddBegin \/ WAdd \/ WAppendChunk \/ WAppendDoc \/ WSave
    \/ RStart \/ RLen \/ RSearch \/ RResult \/ RLog \/ RBuild
    \/ RStamp \/ RGetItem \/ RSend
    \/ TakeResults

SpecStoreThreads == InitStoreThreads /\ [][NextStoreThreads]_vars

-----------------------------------------------------------------------------
(* Claims on the message bus *)

\* The envelopes of a log that no clear_mcp_queue threw away.
Kept(log) ==
    LET NotDiscarded(e) == e \notin discarded
    IN  SelectSeq(log, NotDiscarded)

\* C4: for every receiver, the envelopes returned by receive_mcp_message so
\* far, followed by the ones still pending, are the envelopes successfully
\* sent to it in sending order (those a clear threw away left out); and a
\* receive that returned None left an empty queue behind.
C4_FifoPerReceiver ==
    /\ \A r \in Receivers :
          recv_log[r] \o QueueGet(message_queues, r) = Kept(sent_log[r])
    /\ (ret.op = "receive_mcp_message" /\ ret.msg = None) =>
          QueueGet(message_queues, ret.receiver) = << >>

\* C4 witness: three envelopes were sent to "R" and received in that order,
\* and the next receive returned None.
C4_Witness ==
    /\ Len(sent_log["R"]) = 3
    /\ recv_log["R"] = sent_log["R"]
    /\ discarded = {}
    /\ ret.op = "receive_mcp_message" /\ ret.receiver = "R" /\ ret.msg = None

\* C18: send_mcp_message on a value that is not a dictionary, or on a
\* dictionary that lacks sender, receiver or payload, returns False, and no
\* queue is created or changed by it.
C18_MalformedSendRejected ==
    [][ ( /\ ret'.op = "send_mcp_message"
          /\ ~ret'.is_dict \/ ~(required_fields \subseteq ret'.keys) ) =>
          /\ ~ret'.ok
          /\ DOMAIN message_queues' = DOMAIN message_queues
          /\ message_queues' = message_queues ]_vars

\* C18 witness: a dictionary without payload was refused while "R" had an
\* envelope pending and "RetrievalAgent" had no queue yet.
C18_Witness ==
    /\ ret.op = "send_mcp_message" /\ ~ret.ok
    /\ ret.is_dict /\ ret.keys = required_fields \ {"payload"}
    /\ Len(QueueGet(message_queues, "R")) >= 1
    /\ "RetrievalAgent" \notin DOMAIN message_queues

\* C19: peek_mcp_message(R) returns the number of envelopes pending for R
\* and changes nothing: the same queues exist after the call as before, each
\* with the same envelopes in the same order.
C19_PeekReadsOnly ==
    [][ ret'.op = "peek_mcp_message" =>
          /\ ret'.count = Len(QueueGet(message_queues, ret'.receiver))
          /\ DOMAIN message_queues' = DOMAIN message_queues
          /\ \A r \in DOMAIN message_queues : message_queues'[r] = message_queues[r] ]_vars

\* C19 witness: a peek counted two pending envelopes for "R", and a receiver
\* that was never sent to still has no queue.
C19_Witness ==
    /\ ret.op = "peek_mcp_message" /\ ret.receiver = "R" /\ ret.count = 2
    /\ Len(QueueGet(message_queues, "R")) = 2
    /\ "LLMResponseAgent" \notin DOMAIN message_queues

\* C20: clear_mcp_queue(R) leaves nothing pending for R, whatever was
\* pending before; a queue with nothing pending keeps nothing pending until a
\* send, and until then receive_mcp_message(R) returns None and
\* peek_mcp_message(R) returns 0; and no envelope a clear threw away is
\* pending or received afterwards.
C20_ClearDiscardsPending ==
    [][ \A r \in Receivers :
          LET before == QueueGet(message_queues, r)
              after == QueueGet(message_queues', r)
          IN  /\ (ret'.op = "clear_mcp_queue" /\ ret'.receiver = r) => after = << >>
              /\ (before = << >> /\ ret'.op # "send_mcp_message") => after = << >>
              /\ ( /\ before = << >>
                    /\ ret'.op = "receive_mcp_message" /\ ret'.receiver = r ) =>
                        ret'.msg = None
              /\ ( /\ before = << >>
                    /\ ret'.op = "peek_mcp_message" /\ ret'.receiver = r ) =>
                        ret'.count = 0
              /\ (Range(after) \cup Range(recv_log'[r])) \cap discarded' = {} ]_vars

\* C20 witness: two envelopes were sent to "R", a clear threw both away, and
\* the receive that followed returned None.
C20_Witness ==
    /\ Len(sent_log["R"]) = 2 /\ Range(sent_log["R"]) = discarded
    /\ recv_log["R"] = << >>
    /\ ret.op = "receive_mcp_message" /\ ret.receiver = "R" /\ ret.msg = None

\* C21: receive_mcp_message, peek_mcp_message and clear_mcp_queue on a name
\* that was never sent to return None, 0 and nothing; they create no queue
\* for the name, so get_mcp_stats reports the same queues after the call as
\* before; a name has a queue exactly when a send to it succeeded, and only
\* a successful send changes the set of queues.
C21_UnknownReceiverIsEmpty ==
    [][ /\ \A r \in Receivers : r \in DOMAIN message_queues <=> sent_log[r] # << >>
        /\ DOMAIN message_queues' # DOMAIN message_queues =>
              ret'.op = "send_mcp_message" /\ ret'.ok
        /\ ( /\ ret'.op \in {"receive_mcp_message", "peek_mcp_message",
                             "clear_mcp_queue"}
             /\ sent_log[ret'.receiver] = << >> ) =>
              /\ ret'.op = "receive_mcp_message" => ret'.msg = None
              /\ ret'.op = "peek_mcp_message" => ret'.count = 0
              /\ ret'.receiver \notin DOMAIN message_queues'
              /\ get_mcp_stats(message_queues') = get_mcp_stats(message_queues)
              /\ message_queues' = message_queues ]_vars

\* C21 witness: a clear was made on "LLMResponseAgent", which was never sent
\* to, while "R" had a queue with an envelope; the name still has no queue.
C21_Witness ==
    /\ ret.op = "clear_mcp_queue" /\ ret.receiver = "LLMResponseAgent"
    /\ "LLMResponseAgent" \notin DOMAIN message_queues
    /\ get_mcp_stats(message_queues).total_queues = 1
    /\ Len(QueueGet(message_queues, "R")) >= 1

\* C28: receive_mcp_message(R) returns only envelopes that were sent to R,
\* and a send, receive or clear on R leaves every other receiver's queue as
\* it was: the same envelopes in the same order.
C28_QueuesIsolated ==
    [][ /\ \A r \in Receivers : \A i \in 1..Len(recv_log'[r]) :
              /\ recv_log'[r][i].receiver = r
              /\ recv_log'[r][i] \in Range(sent_log'[r])
        /\ \A r \in Receivers : \A i \in 1..Len(QueueGet(message_queues', r)) :
              QueueGet(message_queues', r)[i].receiver = r
        /\ ret'.op = "receive_mcp_message" /\ ret'.msg # None =>
              ret'.msg[1].receiver = ret'.receiver
        /\ ret'.op \in {"receive_mcp_message", "clear_mcp_queue"} =>
              \A r \in (DOMAIN message_queues \cup Receivers) \ {ret'.receiver} :
                  /\ r \in DOMAIN message_queues' <=> r \in DOMAIN message_queues
                  /\ QueueGet(message_queues', r) = QueueGet(message_queues, r)
        /\ ret'.op = "send_mcp_message" =>
              \A r \in DOMAIN message_queues \cup Receivers :
                  \/ /\ r \in DOMAIN message_queues' <=> r \in DOMAIN message_queues
                     /\ QueueGet(message_queues', r) = QueueGet(message_queues, r)
                  \/ /\ ret'.ok
                     /\ Len(sent_log'[r]) = Len(sent_log[r]) + 1 ]_vars

\* C28 witness: with an envelope pending for "RetrievalAgent", an envelope
\* sent to "R" was received from "R", and the one of "RetrievalAgent" is
\* still pending.
C28_Witness ==
    /\ ret.op = "receive_mcp_message" /\ ret.receiver = "R" /\ ret.msg # None
    /\ Len(QueueGet(message_queues, "RetrievalAgent")) = 1
    /\ recv_log["RetrievalAgent"] = << >>
    /\ QueueGet(message_queues, "RetrievalAgent")[1].timestamp < ret.msg[1].timestamp

\* How many times e occurs in a list.
Count(list, e) == Cardinality({ i \in 1..Len(list) : list[i] = e })

\* C5: under any interleaving of send, receive and clear calls on one queue,
\* every successfully sent envelope is in exactly one place: still pending
\* in the queue (once), returned by one receive, or thrown away by a clear;
\* and nothing is pending or returned that was not sent.
C5_ExactlyOnePlace ==
    /\ \A i \in 1..Len(sent_log["R"]) :
          LET e == sent_log["R"][i]
          IN  Count(QueueGet(message_queues, "R"), e) + Count(recv_log["R"], e)
                + (IF e \in discarded THEN 1 ELSE 0) = 1
    /\ Range(QueueGet(message_queues, "R")) \cup Range(recv_log["R"])
          \subseteq Range(sent_log["R"])

\* C5 witness: two receives raced for the last envelope; one returned it, the
\* other found the list empty at pop(0) and returned None.
C5_Witness ==
    /\ ret.op = "receive_mcp_message" /\ ret.raised
    /\ Len(recv_log["R"]) >= 1
    /\ discarded = {}

-----------------------------------------------------------------------------
(* ingestion_agent.py process_document and app.py coordinate_upload *)

\* The files uploaded: their names, and what chunk_text makes of the text
\* extracted from them (no chunk for a file that yields no text).
FileNames == Docs \cup {"x.bin"}

\* filename.lower().split('.')[-1]
Extension(filename) == IF filename \in Docs THEN "txt" ELSE "bin"

SupportedExtensions == {"pdf", "docx", "pptx", "txt", "md", "csv"}

\* chunk_text(text, chunk_size=500, overlap=50) in process_document
DocChunkSize == 500

DocOverlap == 50

\* Where chunk i stands in a text that chunk_text(text, 500, 50) cuts into
\* given chunks: the first at position 0 and blanks up to the end of its
\* window, which ends on a blank; each next window begins 50 characters
\* before the end of the last, in the blanks, and its chunk stands where the
\* last window ended.
ChunkPosition(i) ==
    IF i = 1 THEN 0 ELSE (i - 1) * (DocChunkSize - DocOverlap) + DocOverlap

\* len(text) for the files that give the chunks: no text gives no chunk;
\* else the text ends with the last chunk and up to MaxPadding blanks.
TextLengths(chunks) ==
    IF chunks = << >> THEN {0}
    ELSE { ChunkPosition(Len(chunks)) + Len(chunks[Len(chunks)]) + pad :
             pad \in 0..MaxPadding }

\* The message process_document sends to the retrieval agent; total_chars is
\* len(text).
IngestionMessage(filename, chunks, total_chars) ==
    Message(TRUE, required_fields, "IngestionAgent", "RetrievalAgent",
            [chunks |-> chunks, document_name |-> filename,
             metadata |-> [file_type |-> Extension(filename),
                           chunk_count |-> Len(chunks),
                           total_chars |-> total_chars]])

\* Mutant: the message is sent twice.
process_document_twice(queues, now, filename, chunks, total_chars) ==
    LET m == IngestionMessage(filename, chunks, total_chars)
    IN  IF Extension(filename) \notin SupportedExtensions \/ chunks = << >>
        THEN [queues |-> queues, ok |-> FALSE]
        ELSE [queues |-> send_mcp_message(send_mcp_message(queues, m, now).queues,
                                          m, now).queues,
              ok |-> TRUE]

\* process_document for a file whose text has total_chars characters and is
\* cut into chunks: the queues after the call and its result.
process_document(queues, now, filename, chunks, total_chars) ==
    IF Extension(filename) \notin SupportedExtensions \/ chunks = << >>
    THEN [queues |-> queues, ok |-> FALSE]
    ELSE [queues |-> send_mcp_message(queues,
                        IngestionMessage(filename, chunks, total_chars), now).queues,
          ok |-> TRUE]

\* "return success" of coordinate_upload: the result of process_document.
UploadResult(success, stored) == success

\* coordinate_upload: the store, the files, the queues, the result returned
\* and the result of store_embeddings when it was called.
coordinate_upload(st, disk, queues, now, filename, chunks, total_chars, fault) ==
    LET p == process_document(queues, now, filename, chunks, total_chars)
        rcv == receive_mcp_message(p.queues, "RetrievalAgent")
        s == store_embeddings(st, disk, rcv.msg[1].payload.chunks,
                              rcv.msg[1].payload.document_name, fault)
    IN  IF ~p.ok
        THEN [store |-> st, disk |-> disk, queues |-> p.queues,
              result |-> FALSE, stored |-> None]
        ELSE IF rcv.msg = None
        THEN [store |-> st, disk |-> disk, queues |-> rcv.queues,
              result |-> UploadResult(p.ok, None), stored |-> None]
        ELSE [store |-> s.store, disk |-> s.disk, queues |-> rcv.queues,
              result |-> UploadResult(p.ok, Some(s.ok)), stored |-> Some(s.ok)]

\* What ret keeps of a coordinate_upload call: the result returned, whether
\* segmentation gave no chunk, the result of store_embeddings when it was
\* called, what went wrong in it, and the chunks when they were stored.
UploadReturn(chunks, fault, result, stored) ==
    [op |-> "coordinate_upload", result |-> result, stored |-> stored,
     zero_chunks |-> chunks = << >>,
     fault |-> IF stored = None THEN "none" ELSE fault,
     chunks |-> IF stored = Some(TRUE) THEN chunks ELSE << >>]

\* coordinate_upload(file, filename), from its first line to its return.
CoordinateUpload ==
    \E filename \in FileNames, chunks \in Batches, fault \in StoreFaults :
      \E total_chars \in TextLengths(chunks) :
        LET r == coordinate_upload(TheStore, TheDisk, message_queues, clock,
                                   filename, chunks, total_chars, fault)
            sent == process_document(message_queues, clock, filename, chunks,
                                     total_chars).ok
        IN  /\ proc = "up"
            /\ clock < MaxClock
            /\ StoreSize + Len(chunks) <= MaxStored
            /\ SetStore(r.store)
            /\ SetDisk(r.disk)
            /\ message_queues' = r.queues
            /\ clock' = IF sent THEN clock + 1 ELSE clock
            /\ ret' = UploadReturn(chunks, fault, r.result, r.stored)
            /\ UNCHANGED << sent_log, recv_log, discarded, proc, threads >>

-----------------------------------------------------------------------------
(* coordinate_upload step by step: process_document up to its send, the
   receive, and store_embeddings up to its save. steps lists what the call
   has done so far, each step with whether it went through; before is the
   store the call found. *)

Uploader(pc, filename, chunks, total_chars, fault, before) ==
    [pc |-> pc, filename |-> filename, chunks |-> chunks,
     total_chars |-> total_chars, fault |-> fault,
     before |-> before, steps |-> << >>, msg |-> None, result |-> None]

UploaderIdle == Uploader("idle", "", << >>, 0, "none", EmptyStore)

Step(name, ok) == [step |-> name, ok |-> ok]

\* A return of coordinate_upload.
UpDone(u, result, stored) ==
    /\ SetThread("uploader", [u EXCEPT !.pc = "done", !.result = Some(result)])
    /\ ret' = UploadReturn(u.chunks, u.fault, result, stored)

\* process_document up to chunk_text: an unsupported extension or a file
\* without text returns False before any chunk is made.
UpSegment ==
    \E filename \in FileNames, chunks \in Batches, fault \in StoreFaults :
      \E total_chars \in TextLengths(chunks) :
        LET u == Uploader("send", filename, chunks, total_chars, fault, TheStore)
        IN  /\ threads["uploader"].pc \in {"idle", "done"}
            /\ clock < MaxClock
            /\ StoreSize + Len(chunks) <= MaxStored
            /\ IF Extension(filename) \notin SupportedExtensions \/ chunks = << >>
               THEN UpDone(u, FALSE, None)
               ELSE /\ SetThread("uploader",
                                 [u EXCEPT !.steps = << Step("segment", TRUE) >>])
                    /\ UNCHANGED ret
            /\ UNCHANGED << busVars, storeVars, diskVars, proc >>

\* send_mcp_message(message) and "return True" of process_document.
UpSend ==
    LET u == threads["uploader"]
        r == send_mcp_message(message_queues,
                              IngestionMessage(u.filename, u.chunks, u.total_chars),
                              clock)
    IN  /\ u.pc = "send"
        /\ message_queues' = r.queues
        /\ clock' = clock + 1
        /\ SetThread("uploader", [u EXCEPT !.pc = "receive"])
        /\ UNCHANGED << sent_log, recv_log, discarded, storeVars, diskVars, proc, ret >>

\* message = receive_mcp_message("RetrievalAgent"); without a message the
\* call returns success.
UpReceive ==
    LET u == threads["uploader"]
        r == receive_mcp_message(message_queues, "RetrievalAgent")
    IN  /\ u.pc = "receive"
        /\ message_queues' = r.queues
        /\ IF r.msg = None
           THEN UpDone(u, UploadResult(TRUE, None), None)
           ELSE /\ SetThread("uploader", [u EXCEPT !.pc = "embed", !.msg = r.msg])
                /\ UNCHANGED ret
        /\ UNCHANGED << clock, sent_log, recv_log, discarded, storeVars, diskVars,
                       proc >>

\* store_embeddings up to create_embeddings: when the model raises it returns
\* False, and coordinate_upload returns success.
UpEmbed ==
    LET u == threads["uploader"]
        embeddings == create_embeddings(u.msg[1].payload.chunks, u.fault = "embed")
        v == [u EXCEPT !.steps = Append(@, Step("embed", embeddings # None))]
    IN  /\ u.pc = "embed"
        /\ IF embeddings = None
           THEN UpDone(v, UploadResult(TRUE, Some(FALSE)), Some(FALSE))
           ELSE /\ SetThread("uploader", [v EXCEPT !.pc = "add"])
                /\ UNCHANGED ret
        /\ UNCHANGED << busVars, storeVars, diskVars, proc >>

\* vector_index.add(embeddings) and the loop of appends; when add raises the
\* except branch returns False.
UpAdd ==
    LET u == threads["uploader"]
        chunks == u.msg[1].payload.chunks
        raises == u.fault = "add"
        v == [u EXCEPT !.steps = Append(@, Step("append", ~raises))]
    IN  /\ u.pc = "add"
        /\ IF raises
           THEN /\ UpDone(v, UploadResult(TRUE, Some(FALSE)), Some(FALSE))
                /\ UNCHANGED storeVars
           ELSE /\ vector_index' = IndexAdd(vector_index,
                                            create_embeddings(chunks, FALSE)[1])
                /\ stored_chunks' = ChunksAppend(stored_chunks, chunks)
                /\ document_mapping' = DocsAppend(document_mapping, chunks,
                                                  u.msg[1].payload.document_name)
                /\ SetThread("uploader", [v EXCEPT !.pc = "save"])
                /\ UNCHANGED ret
        /\ UNCHANGED << busVars, diskVars, proc >>

\* save_vector_store(), "return True" of store_embeddings and the return of
\* coordinate_upload.
UpSave ==
    LET u == threads["uploader"]
        p == SavePointOf(u.fault)
        v == [u EXCEPT !.steps = Append(@, Step("persist", p = "none"))]
    IN  /\ u.pc = "save"
        /\ SetDisk(save_vector_store(TheStore, TheDisk, p))
        /\ UpDone(v, UploadResult(TRUE, Some(TRUE)), Some(TRUE))
        /\ UNCHANGED << busVars, storeVars, proc >>

InitIngest == InitProgram /\ threads = [t \in {"uploader"} |-> UploaderIdle]

NextIngest == UpSegment \/ UpSend \/ UpReceive \/ UpEmbed \/ UpAdd \/ UpSave

SpecIngest == InitIngest /\ [][NextIngest]_vars

-----------------------------------------------------------------------------
(* coordinate_upload from the text of the file: process_document with its
   chunk_text call, the receive, and store_embeddings. *)

\* The loop of chunk_text from position start, for at most fuel passes.
RECURSIVE ChunkTextFrom(_, _, _, _, _)
ChunkTextFrom(text, chunk_size, overlap, start, fuel) ==
    IF start >= Len(text) \/ fuel = 0 THEN << >>
    ELSE LET w == Window(text, start, chunk_size)
         IN  << Strip(w.chunk) >> \o
             ChunkTextFrom(text, chunk_size, overlap, NextStart(w.end, overlap),
                           fuel - 1)

\* chunk_text(text, chunk_size, overlap): the chunks it returns.
chunk_text(text, chunk_size, overlap) ==
    IF Len(text) = 0 THEN << >>
    ELSE ChunkTextFrom(text, chunk_size, overlap, 0, MaxChunks)

\* What process_document makes of the text extracted from a file: nothing
\* for no text ("if not text"), else the chunks of chunk_text.
DocumentChunks(text) ==
    IF text = << >> THEN << >> ELSE chunk_text(text, DocChunkSize, DocOverlap)

\* The texts extracted from the files uploaded.
FileTexts == SeqsUpTo(Alphabet, MaxFileLen)

\* embedding_model.encode for a text given as its characters: the same text
\* always gives the same vector; the empty string has a vector too.
EmbedChars(t) == << Len(t), Cardinality({ i \in 1..Len(t) : t[i] = " " }) >>

CreateEmbeddingsChars(texts, model_raises) ==
    IF model_raises THEN None
    ELSE Some([i \in 1..Len(texts) |-> EmbedChars(texts[i])])

\* coordinate_upload for a file with the given text: as coordinate_upload
\* above, with the chunks made by chunk_text.
coordinate_upload_text(st, disk, queues, now, filename, text, fault) ==
    LET p == process_document(queues, now, filename, DocumentChunks(text),
                              Len(text))
        rcv == receive_mcp_message(p.queues, "RetrievalAgent")
        payload == rcv.msg[1].payload
        s == StoreEmbedded(st, disk, payload.chunks, payload.document_name, fault,
                           CreateEmbeddingsChars(payload.chunks, fault = "embed"))
    IN  IF ~p.ok
        THEN [store |-> st, disk |-> disk, queues |-> p.queues,
              result |-> FALSE, stored |-> None]
        ELSE IF rcv.msg = None
        THEN [store |-> st, disk |-> disk, queues |-> rcv.queues,
              result |-> UploadResult(p.ok, None), stored |-> None]
        ELSE [store |-> s.store, disk |-> s.disk, queues |-> rcv.queues,
              result |-> UploadResult(p.ok, Some(s.ok)), stored |-> Some(s.ok)]

\* coordinate_upload(file, filename) for a file with some text; the embedding
\* model or index.add may fail (the faults of saving are those of SpecSave).
UploadText ==
    \E filename \in FileNames, text \in FileTexts, fault \in CallFaults :
        LET chunks == DocumentChunks(text)
            r == coordinate_upload_text(TheStore, TheDisk, message_queues, clock,
                                        filename, text, fault)
            sent == process_document(message_queues, clock, filename, chunks,
                                     Len(text)).ok
        IN  /\ proc = "up"
            /\ clock < MaxClock
            /\ StoreSize + Len(chunks) <= MaxStored
            /\ SetStore(r.store)
            /\ SetDisk(r.disk)
            /\ message_queues' = r.queues
            /\ clock' = IF sent THEN clock + 1 ELSE clock
            /\ ret' = UploadReturn(chunks, fault, r.result, r.stored)
            /\ UNCHANGED << sent_log, recv_log, discarded, proc, threads >>

NextPipeline == UploadText \/ ClearVectorStore

SpecPipeline == InitStore /\ [][NextPipeline]_vars

-----------------------------------------------------------------------------
(* llm_response_agent.py generate_response and app.py coordinate_query *)

\* What the language model does in one generate_response call: it answers,
\* get_llm raises, or llm.invoke raises.
LlmOutcomes == {"answer", "init_error", "api_error"}

\* generate_response: the answer and the sources (the names in top_chunks,
\* each once).
generate_response(query, top_chunks, llm) ==
    IF top_chunks = << >>
    THEN [answer |-> "no relevant information", sources |-> {}]
    ELSE IF llm = "init_error"
    THEN [answer |-> "Error: Unable to initialize language model", sources |-> {}]
    ELSE IF llm = "api_error"
    THEN [answer |-> "Error generating response", sources |-> {}]
    ELSE [answer |-> "answer",
          sources |-> { top_chunks[i][2] : i \in 1..Len(top_chunks) }]

\* coordinate_query: the queues after the call, what retrieve_chunks returned
\* and whether it sent, and the (response, sources) returned: (None, None)
\* when no envelope was waiting for the LLM response agent.
coordinate_query(st, queues, now, query, model_raises, indices, llm) ==
    LET r == retrieve_chunks(st, queues, now, query, model_raises, indices)
        rcv == receive_mcp_message(r.queues, "LLMResponseAgent")
        g == generate_response(rcv.msg[1].payload.query,
                               rcv.msg[1].payload.top_chunks, llm)
    IN  IF rcv.msg = None
        THEN [queues |-> rcv.queues, results |-> r.results, sent |-> r.sent,
              response |-> None, sources |-> None]
        ELSE [queues |-> rcv.queues, results |-> r.results, sent |-> r.sent,
              response |-> Some(g.answer), sources |-> Some(g.sources)]

\* coordinate_query(query, selected_model), from its first line to its
\* return; retrieve_chunks runs with its default top_k.
CoordinateQuery ==
    \E query \in Queries, model_raises \in BOOLEAN, llm \in LlmOutcomes :
      \E indices \in FaissSearch(vector_index, Embed(query),
                                 Min(DefaultTopK, Len(stored_chunks))) :
        LET r == coordinate_query(TheStore, message_queues, clock, query,
                                  model_raises, indices, llm)
        IN  /\ proc = "up"
            /\ clock < MaxClock
            /\ message_queues' = r.queues
            /\ clock' = IF r.sent THEN clock + 1 ELSE clock
            /\ ret' = [op |-> "coordinate_query", query |-> query,
                       results |-> r.results, sent |-> r.sent,
                       response |-> r.response, sources |-> r.sources]
            /\ UNCHANGED << sent_log, recv_log, discarded, storeVars, diskVars,
                           proc, threads >>

NextCoord == CoordinateUpload \/ ClearVectorStore \/ CoordinateQuery

SpecCoord == InitStore /\ [][NextCoord]_vars

-----------------------------------------------------------------------------
(* coordinate_query called by two threads on the one bus of the process,
   one call each. The code takes no lock: the other thread may run between
   any two accesses to message_queues, between the stamping of an envelope
   and its append, and while a call waits for the language model. The store
   is filled before the queries and stays as it is while they run. *)

Askers == {"a1", "a2"}

\* A coordinate_query call: its query, what its retrieve_chunks returned and
\* whether it sent, and, once it has returned, its response and the payload
\* of the envelope the response was made from; on the way, the indices of
\* the search, the message built, the envelope stamped and the envelope
\* received.
Asker(pc, query, results, sent) ==
    [pc |-> pc, query |-> query, results |-> results, sent |-> sent,
     response |-> None, from |-> None,
     indices |-> << >>, message |-> None, env |-> None, msg |-> None]

AskerIdle == Asker("idle", "", << >>, FALSE)

\* A return of coordinate_query in thread t whose local values are a.
AskDone(t, a, response, sources) ==
    /\ SetThread(t, [a EXCEPT !.pc = "done", !.response = response,
                              !.message = None, !.env = None, !.indices = << >>])
    /\ ret' = [op |-> "coordinate_query", query |-> a.query,
               results |-> a.results, sent |-> a.sent,
               response |-> response, sources |-> sources]

\* retrieve_chunks(query) up to the query embedding: an empty stored_chunks
\* or a failing model returns [] and nothing is sent.
AskRetrieve(t) ==
    \E query \in Queries, model_raises \in BOOLEAN :
        /\ proc = "up"
        /\ threads[t].pc = "idle"
        /\ clock < MaxClock
        /\ SetThread(t, Asker(IF \/ Len(stored_chunks) = 0
                                 \/ create_embeddings(<< query >>, model_raises) = None
                              THEN "receive" ELSE "search",
                              query, << >>, FALSE))
        /\ UNCHANGED << busVars, storeVars, diskVars, proc, ret >>

\* vector_index.search(query_embedding, min(top_k, len(stored_chunks))) with
\* the default top_k.
AskSearch(t) ==
    LET a == threads[t]
    IN  \E out \in SearchOutcomes(vector_index, Embed(a.query),
                                  Min(DefaultTopK, Len(stored_chunks))) :
            /\ proc = "up"
            /\ a.pc = "search"
            /\ SetThread(t, IF out.raised THEN [a EXCEPT !.pc = "receive"]
                            ELSE [a EXCEPT !.pc = "results", !.indices = out.indices])
            /\ UNCHANGED << busVars, storeVars, diskVars, proc, ret >>

\* The results loop, the logging loop and the message built from the
\* results; an IndexError returns [] and nothing is sent.
AskResults(t) ==
    LET a == threads[t]
        results == RetrieveResults(TheStore, a.indices)
    IN  /\ proc = "up"
        /\ a.pc = "results"
        /\ SetThread(t, IF RetrieveRaises(TheStore, a.indices)
                        THEN [a EXCEPT !.pc = "receive", !.indices = << >>]
                        ELSE [a EXCEPT !.pc = "stamp", !.results = results,
                                       !.message = Some(RetrievalMessage(
                                                       TheStore, a.query, results))])
        /\ UNCHANGED << busVars, storeVars, diskVars, proc, ret >>

\* send_mcp_message up to the stamping of the envelope (timestamp and
\* message_id).
AskStamp(t) ==
    LET a == threads[t]
    IN  /\ proc = "up"
        /\ a.pc = "stamp"
        /\ clock' = clock + 1
        /\ SetThread(t, [a EXCEPT !.pc = "send_getitem", !.message = None,
                                  !.env = Some(Envelope(a.message[1], clock))])
        /\ UNCHANGED << message_queues, sent_log, recv_log, discarded, storeVars,
                       diskVars, proc, ret >>

\* message_queues[receiver]: the defaultdict creates the list of a missing key.
AskGetItem(t) ==
    LET a == threads[t]
    IN  /\ proc = "up"
        /\ a.pc = "send_getitem"
        /\ message_queues' = QueueSet(message_queues, a.env[1].receiver,
                                      QueueGet(message_queues, a.env[1].receiver))
        /\ SetThread(t, [a EXCEPT !.pc = "send_append"])
        /\ UNCHANGED << clock, sent_log, recv_log, discarded, storeVars, diskVars,
                       proc, ret >>

\* .append(message) on that list, the return of True and "return results"
\* of retrieve_chunks.
AskAppend(t) ==
    LET a == threads[t]
    IN  /\ proc = "up"
        /\ a.pc = "send_append"
        /\ message_queues' = Enqueue(message_queues, a.env[1])
        /\ SetThread(t, [a EXCEPT !.pc = "receive", !.sent = TRUE, !.env = None,
                                  !.indices = << >>])
        /\ UNCHANGED << clock, sent_log, recv_log, discarded, storeVars, diskVars,
                       proc, ret >>

\* receive_mcp_message("LLMResponseAgent"): the test "receiver_name in
\* message_queues and message_queues[receiver_name]"; when it fails the call
\* returns None and coordinate_query returns (None, None).
AskReceive(t) ==
    LET a == threads[t]
    IN  /\ proc = "up"
        /\ a.pc = "receive"
        /\ IF HasMessage(message_queues, "LLMResponseAgent")
           THEN /\ SetThread(t, [a EXCEPT !.pc = "recv_pop"])
                /\ UNCHANGED ret
           ELSE AskDone(t, a, None, None)
        /\ UNCHANGED << busVars, storeVars, diskVars, proc >>

\* message_queues[receiver_name].pop(0). On a list emptied since the test,
\* pop raises IndexError, which receive_mcp_message answers with None.
AskPop(t) ==
    LET a == threads[t]
        q == QueueGet(message_queues, "LLMResponseAgent")
    IN  /\ proc = "up"
        /\ a.pc = "recv_pop"
        /\ IF q # << >>
           THEN /\ message_queues' = QueueSet(message_queues, "LLMResponseAgent",
                                              Pop(q).rest)
                /\ SetThread(t, [a EXCEPT !.pc = "generate", !.msg = Some(Pop(q).item)])
                /\ UNCHANGED ret
           ELSE /\ AskDone(t, a, None, None)
                /\ UNCHANGED message_queues
        /\ UNCHANGED << clock, sent_log, recv_log, discarded, storeVars, diskVars,
                       proc >>

\* generate_response on the payload of the envelope received, with its call
\* to the language model, and the return of coordinate_query.
AskGenerate(t) ==
    \E llm \in LlmOutcomes :
        LET a == threads[t]
            payload == a.msg[1].payload
            g == generate_response(payload.query, payload.top_chunks, llm)
        IN  /\ proc = "up"
            /\ a.pc = "generate"
            /\ AskDone(t, [a EXCEPT !.msg = None,
                                    !.from = Some([query |-> payload.query,
                                                   top_chunks |-> payload.top_chunks])],
                       Some(g.answer), Some(g.sources))
            /\ UNCHANGED << busVars, storeVars, diskVars, proc >>

\* Documents are stored before the two queries are made.
AskStore ==
    /\ \A t \in Askers : threads[t].pc = "idle"
    /\ StoreEmbeddingsSaved

InitAsk == InitProgram /\ threads = [t \in Askers |-> AskerIdle]

NextAsk ==
    \/ AskStore
    \/ \E t \in Askers :
          \/ AskRetrieve(t) \/ AskSearch(t) \/ AskResults(t)
          \/ AskStamp(t) \/ AskGetItem(t) \/ AskAppend(t)
          \/ AskReceive(t) \/ AskPop(t) \/ AskGenerate(t)

SpecAsk == InitAsk /\ [][NextAsk]_vars

\* C10: coordinate_upload returns False whenever the ingestion fails at a
\* step: segmentation gives no chunk, the embedding call fails, or the
\* append to the index fails.
C10_UploadReportsFailure ==
    ( /\ ret.op = "coordinate_upload"
      /\ \/ ret.zero_chunks
         \/ ret.stored # None /\ ret.fault \in {"embed", "add"} ) =>
        ret.result = FALSE

\* The order of the steps of an ingestion.
IngestionOrder == << "segment", "embed", "append", "persist" >>

\* C27: a coordinate_upload call does its steps in the order segment, embed,
\* append, persist, each at most once; it appends only after the embedding
\* went through and persists only after the append went through; and when
\* it has returned, the ingestion is either persisted (all four steps went
\* through and the files hold the store that is in memory) or aborted (the
\* store in memory is the one the call found).
C27_IngestionOrderAndOutcome ==
    LET u == threads["uploader"]
        N == Len(u.steps)
    IN  /\ N <= Len(IngestionOrder)
        /\ \A i \in 1..N : u.steps[i].step = IngestionOrder[i]
        /\ \A i \in 1..(N - 1) : u.steps[i].ok
        /\ u.pc = "done" =>
              \/ /\ N = Len(IngestionOrder) /\ u.steps[N].ok
                 /\ file_index = IndexFile(vector_index)
                 /\ file_meta = MetaFile(stored_chunks, document_mapping)
              \/ TheStore = u.before

\* The two queues the coordinators use.
AgentQueues == {"RetrievalAgent", "LLMResponseAgent"}

\* C29: with coordinate_upload and coordinate_query run one at a time, both
\* agent queues are empty after every call; a call stamps at most one
\* envelope: coordinate_upload exactly when process_document succeeded,
\* coordinate_query exactly when retrieve_chunks got to its send.
C29_NoEnvelopeLeftBehind ==
    [][ /\ \A r \in AgentQueues : QueueGet(message_queues', r) = << >>
        /\ clock' \in {clock, clock + 1}
        /\ ret'.op = "coordinate_upload" => (clock' = clock + 1 <=> ret'.result)
        /\ ret'.op = "coordinate_query" =>
              /\ clock' = clock + 1 <=> ret'.sent
              /\ ret'.sent <=> ret'.response # None ]_vars

\* C29 witness: an upload stored its chunks, the query after it was answered
\* from its envelope, and both queues are empty.
C29_Witness ==
    /\ ret.op = "coordinate_query" /\ ret.sent /\ ret.response # None
    /\ ret.results # << >>
    /\ clock = 2
    /\ \A r \in AgentQueues : r \in DOMAIN message_queues /\ message_queues[r] = << >>

\* C30: with two coordinate_query calls running at once, a call that has
\* returned an answer made it from the envelope of its own retrieve_chunks,
\* the one with its query and its chunks, and a call whose retrieve_chunks
\* sent an envelope has not returned (None, None).
C30_AnswerFromOwnEnvelope ==
    \A t \in Askers :
        LET a == threads[t]
        IN  a.pc = "done" =>
                /\ a.response # None =>
                      a.from = Some([query |-> a.query, top_chunks |-> a.results])
                /\ a.sent => a.response # None

\* C31: every chunk that an upload has put in the vector store is a
\* non-empty string, whatever the text of the file, a text of whitespace
\* alone included.
C31_StoredChunksNonEmpty ==
    \A i \in 1..Len(stored_chunks) : stored_chunks[i] # << >>

\* C17: a query against a store that holds no vector is answered with the
\* no-results outcome: retrieve_chunks returns an empty list and sends no
\* envelope, the store, the files and the queues stay as they were, and
\* coordinate_query returns (None, None).
C17_EmptyStoreGivesNoResults ==
    [][ (ret'.op = "coordinate_query" /\ Len(vector_index) = 0) =>
          /\ ret'.results = << >>
          /\ ~ret'.sent
          /\ ret'.response = None /\ ret'.sources = None
          /\ UNCHANGED << storeVars, diskVars, message_queues >> ]_vars

\* C17 witness: a query was made after an upload and a clear had left the
\* store empty, and got (None, None).
C17_Witness ==
    /\ ret.op = "coordinate_query"
    /\ Len(vector_index) = 0 /\ Len(stored_chunks) = 0
    /\ clock >= 1
    /\ ret.results = << >> /\ ret.response = None

=============================================================================
